---- MODULE Spec2Model ----
(***************************************************************************)
(* Weekly hours aggregation and overtime tiering of Sparklog.              *)
(*                                                                         *)
(* Three versions of the Week page are modelled side by side:              *)
(*   - src/src/pages/Week.jsx          (useMemo "weekly", lines 102-153)   *)
(*   - src/unnamed/part_002, 2nd file  (useMemo "weekly, dailyByKey",      *)
(*                                      lines 372-462)                     *)
(*   - src/unnamed/part_001            (useMemo "weekly", lines 116-163,   *)
(*                                      Week.jsx with kmTotal)             *)
(* together with src/unnamed/part_006 (lib/time: hoursBetween).            *)
(*                                                                         *)
(* Units.  JavaScript numbers are modelled by integers:                    *)
(*   - instants (dayjs objects): seconds since 1970-01-01T00:00 local;     *)
(*   - hours: hundredths of an hour ("centi-hours"), the granularity       *)
(*     hoursBetween rounds to, so 8h = 800 and 0.25h = 25;                 *)
(*   - distances: thousandths of a kilometre, so 12.5 km = 12500;          *)
(*   - a JS Map is a sequence of entries in insertion order.               *)
(* Sums of 0.01h values are exact here; the binary floating-point error    *)
(* of the JS sums (below 1e-12 h) and daylight-saving shifts inside one    *)
(* calendar day are not modelled.                                          *)
(***************************************************************************)
EXTENDS Integers, Sequences, FiniteSets, TLC

\* ------------------------------------------------------------------ bounds
MaxJobs == 2          \* rows returned by the jobs query
MaxRenders == 2       \* runs of the useMemo body for one jobs array

\* --------------------------------------------------------- program constants
DAILY_REGULAR_HOURS == 8
WEEKLY_OT_FIRST_TIER_HOURS == 1
CentiPerHour == 100       \* hoursBetween: Math.round(x * 100) / 100
QuarterCenti == 25        \* roundToQuarterHour: Math.round(h * 4) / 4
SecPerMin == 60
SecPerDay == 86400
KmMilliPerCenti == 10     \* part_001: Math.round(km * 100) / 100, km in 0.001 km

\* ------------------------------------------------------------- page state
VARIABLES
  pc,          \* "mounted", "loaded", "failed", "week" (Week.jsx rendered),
               \* "weekP" (the part_002 page rendered), "weekKm" (part_001)
  jobs,        \* the jobs state of the page
  err,         \* the err state of the page
  renders,     \* how many times the useMemo body has run
  map,         \* Week.jsx: the Map at the end of the first loop
  weekly,      \* Week.jsx: the memoised array
  dailyByKey,  \* part_002: the memoised dailyMap
  weeklyP,     \* part_002: the memoised weekly array
  mapKm,       \* part_001: the Map at the end of the first loop
  weeklyKm,    \* part_001: the memoised array
  input,       \* the argument a helper function is called with
  output,      \* what the helper returned for it
  db,          \* the jobs table as approval and editing read and write it
  sheet,       \* rows the spreadsheet endpoint has appended, per job
  calls,       \* the invocations of push_approved_to_sheet under way
  mgr,         \* the state of the manager dashboard
  hist,        \* the state of the History page
  form         \* the state of the job form

pageVars == <<pc, jobs, err, renders, map, weekly, dailyByKey, weeklyP, mapKm, weeklyKm>>
fmtVars == <<input, output>>
flowVars == <<db, sheet, calls, mgr, hist, form>>
vars == <<pageVars, fmtVars, flowVars>>

\* The state outside the Week pages.
otherVars == <<fmtVars, flowVars>>

\* ---------------------------------------------------------- JS arithmetic
Min(a, b) == IF a <= b THEN a ELSE b
Max(a, b) == IF a >= b THEN a ELSE b

\* Integer quotient truncated toward zero (dayjs diff without the float flag).
TruncDiv(a, b) == IF a >= 0 THEN a \div b ELSE -((-a) \div b)

\* ------------------------------------------------------- calendar (dayjs)
\* Days since 1970-01-01 of the proleptic Gregorian date y-m-d (the Date
\* constructor behind dayjs("YYYY-MM-DD")).
DaysFromCivil(y, m, d) ==
  LET yy  == IF m <= 2 THEN y - 1 ELSE y
      era == yy \div 400
      yoe == yy - era * 400
      mp  == IF m > 2 THEN m - 3 ELSE m + 9
      doy == (153 * mp + 2) \div 5 + d - 1
      doe == yoe * 365 + yoe \div 4 - yoe \div 100 + doy
  IN  era * 146097 + doe - 719468

\* The inverse: the calendar date <<y, m, d>> of a day number (Date getters
\* behind dayjs format).
CivilFromDays(n) ==
  LET z   == n + 719468
      era == z \div 146097
      doe == z - era * 146097
      yoe == (doe - doe \div 1460 + doe \div 36524 - doe \div 146096) \div 365
      doy == doe - (365 * yoe + yoe \div 4 - yoe \div 100)
      mp  == (5 * doy + 2) \div 153
      d   == doy - (153 * mp + 2) \div 5 + 1
      m   == IF mp < 10 THEN mp + 3 ELSE mp - 9
      y   == yoe + era * 400 + (IF m <= 2 THEN 1 ELSE 0)
  IN  <<y, m, d>>

\* isoWeekday of a day number: 1 = Monday .. 7 = Sunday (1970-01-01 was a
\* Thursday).
IsoWeekday(n) == ((n + 3) % 7) + 1

\* isoWeek plugin: week number of the Thursday of the week within its year.
IsoWeekOfDay(n) ==
  LET thu  == n + (4 - IsoWeekday(n))
      jan1 == DaysFromCivil(CivilFromDays(thu)[1], 1, 1)
  IN  (thu - jan1) \div 7 + 1

\* ------------------------------------------------------------ JS values
\* A job_date column value: a "YYYY-MM-DD" string, null, or a string dayjs
\* cannot parse.
YMD(y, m, d) == [kind |-> "ymd", y |-> y, m |-> m, d |-> d]
NoDate == [kind |-> "none", y |-> 0, m |-> 0, d |-> 0]
BadDate == [kind |-> "bad", y |-> 0, m |-> 0, d |-> 0]

\* The other texts a job_date may hold, each as the browser meets it:
\*   - "YYYY-MM-DDTHH:mm:ss+HH:mm" and the same with ".SSS"; shift is how many
\*     minutes the offset written in the text is ahead of the browser's own
\*     offset at that instant (0: the text is written in the browser's zone);
\*   - "DD MMM YYYY" with an English month name, and a date in words such as
\*     "January 1, 2024"; engine tells whether the Date parser of this browser
\*     accepts the text (the language leaves it to the implementation);
\*   - "YYYY/MM/DD".
TS(y, m, d, h, mi, sec, shift) ==
  [kind |-> "ts", y |-> y, m |-> m, d |-> d, h |-> h, mi |-> mi, s |-> sec, shift |-> shift]
TSms(y, m, d, h, mi, sec, shift) ==
  [kind |-> "tsms", y |-> y, m |-> m, d |-> d, h |-> h, mi |-> mi, s |-> sec, shift |-> shift]
DMY(d, m, y, engine) == [kind |-> "dmy", y |-> y, m |-> m, d |-> d, engine |-> engine]
Words(y, m, d, engine) == [kind |-> "words", y |-> y, m |-> m, d |-> d, engine |-> engine]
Slash(y, m, d) == [kind |-> "slash", y |-> y, m |-> m, d |-> d]

\* A depart / fin column value: "HH:mm:ss", null, or a string dayjs cannot
\* parse.
HMS(h, m, s) == [kind |-> "hms", h |-> h, m |-> m, s |-> s]
NoTime  == [kind |-> "none", h |-> 0, m |-> 0, s |-> 0]
BadTime == [kind |-> "bad", h |-> 0, m |-> 0, s |-> 0]

\* A km column value: a number or null.
Km(v) == [isNull |-> FALSE, v |-> v]
NoKm == [isNull |-> TRUE, v |-> 0]

\* dayjs objects and the JS null makeDayjsFromJob / makeDayTime return.
DjOk(t) == [tag |-> "ok", t |-> t]
DjInvalid == [tag |-> "invalid", t |-> 0]
DjNull == [tag |-> "null", t |-> 0]

isValid(d) == d.tag = "ok"

\* a.isAfter(b): false as soon as one side is an invalid date (NaN compare).
isAfter(a, b) == isValid(a) /\ isValid(b) /\ a.t > b.t

\* dayjs(job_date): the digits-only pattern of dayjs reads "YYYY-MM-DD" and
\* "YYYY/MM/DD" as a local date (a day past the end of its month rolls over);
\* every other text goes to the Date parser of the browser, which reads an
\* ISO timestamp with its offset and may or may not read other texts.
dayjsOfDate(job_date) ==
  IF job_date.kind \in {"ymd", "slash"}
  THEN DjOk(DaysFromCivil(job_date.y, job_date.m, job_date.d) * SecPerDay)
  ELSE IF job_date.kind \in {"ts", "tsms"}
  THEN DjOk(DaysFromCivil(job_date.y, job_date.m, job_date.d) * SecPerDay
            + job_date.h * 3600 + job_date.mi * SecPerMin + job_date.s
            - job_date.shift * SecPerMin)
  ELSE IF job_date.kind \in {"dmy", "words"} /\ job_date.engine
  THEN DjOk(DaysFromCivil(job_date.y, job_date.m, job_date.d) * SecPerDay)
  ELSE DjInvalid

\* dayjs(job_date, f, true) of the customParseFormat plugin: the text is read
\* by the format, and the result is valid only when formatting it by the same
\* format gives the text back (so a day that rolled over, or an offset other
\* than the browser's own under the Z token, is rejected).
formatKind(f) ==
  CASE f = "YYYY-MM-DD" -> "ymd"
    [] f = "YYYY-MM-DDTHH:mm:ssZ" -> "ts"
    [] f = "YYYY-MM-DDTHH:mm:ss.SSSZ" -> "tsms"
    [] f = "DD MMM YYYY" -> "dmy"
    [] OTHER -> "no such format"

\* Whether y-m-d names a day of the calendar: a text read by a format is
\* given back by that format exactly when no field rolled over.
existsInCalendar(y, m, d) ==
  /\ m \in 1..12
  /\ d >= 1
  /\ d <= (IF m \in {4, 6, 9, 11} THEN 30
           ELSE IF m # 2 THEN 31
           ELSE IF y % 4 = 0 /\ (y % 100 # 0 \/ y % 400 = 0) THEN 29
           ELSE 28)

dayjsStrict(job_date, f) ==
  IF job_date.kind # formatKind(f) THEN DjInvalid
  ELSE IF ~existsInCalendar(job_date.y, job_date.m, job_date.d) THEN DjInvalid
  ELSE IF job_date.kind \in {"ymd", "dmy"}
  THEN DjOk(DaysFromCivil(job_date.y, job_date.m, job_date.d) * SecPerDay)
  ELSE IF job_date.shift # 0 THEN DjInvalid
  ELSE DjOk(DaysFromCivil(job_date.y, job_date.m, job_date.d) * SecPerDay
            + job_date.h * 3600 + job_date.mi * SecPerMin + job_date.s)

\* dayjs(`${date}T${time}`) for a date string and a time string
dayjsOfDateTime(job_date, timeStr) ==
  IF job_date.kind = "ymd" /\ timeStr.kind = "hms"
  THEN DjOk(DaysFromCivil(job_date.y, job_date.m, job_date.d) * SecPerDay
            + timeStr.h * 3600 + timeStr.m * SecPerMin + timeStr.s)
  ELSE DjInvalid

\* d.startOf("isoWeek"): Monday 00:00 of d's week.
startOfIsoWeek(d) ==
  IF ~isValid(d) THEN DjInvalid
  ELSE LET n == d.t \div SecPerDay
       IN  DjOk((n - (IsoWeekday(n) - 1)) * SecPerDay)

\* d.endOf("isoWeek"): Sunday 23:59:59 of d's week.
endOfIsoWeek(d) ==
  IF ~isValid(d) THEN DjInvalid
  ELSE LET n == d.t \div SecPerDay
       IN  DjOk((n - (IsoWeekday(n) - 1) + 7) * SecPerDay - 1)

\* d.format("YYYY-MM-DD"); an invalid date formats as "Invalid Date".
InvalidDateStr == [valid |-> FALSE, y |-> 0, m |-> 0, d |-> 0]
formatYMD(d) ==
  IF ~isValid(d) THEN InvalidDateStr
  ELSE LET c == CivilFromDays(d.t \div SecPerDay)
       IN  [valid |-> TRUE, y |-> c[1], m |-> c[2], d |-> c[3]]

\* d.format("YYYY-[W]WW"): calendar year of d, then the ISO week number of d
\* (the WW token as the advancedFormat plugin defines it; where that plugin is
\* not registered the token stays literal and the key is the year alone,
\* which merges more weeks into one bucket, never fewer).
InvalidWeekStr == [valid |-> FALSE, year |-> 0, week |-> 0]
formatYearWeek(d) ==
  IF ~isValid(d) THEN InvalidWeekStr
  ELSE LET n == d.t \div SecPerDay
       IN  [valid |-> TRUE, year |-> CivilFromDays(n)[1], week |-> IsoWeekOfDay(n)]

\* ------------------------------------------------------------- mutants
\* Faulty variants of the operators below, each the slip a claim must detect.

\* hoursBetween truncating to 0.01h instead of rounding.
hoursBetween_Floor(start, end) ==
  IF start.tag = "null" \/ end.tag = "null" THEN 0
  ELSE IF ~isValid(start) \/ ~isValid(end) THEN 0
  ELSE LET diffMinutes == TruncDiv(end.t - start.t, SecPerMin)
       IN  IF diffMinutes <= 0 THEN 0
           ELSE (diffMinutes * CentiPerHour) \div 60

\* hoursBetween without the diffMinutes <= 0 guard.
hoursBetween_NoGuard(start, end) ==
  IF start.tag = "null" \/ end.tag = "null" THEN 0
  ELSE IF ~isValid(start) \/ ~isValid(end) THEN 0
  ELSE LET diffMinutes == TruncDiv(end.t - start.t, SecPerMin)
       IN  (2 * diffMinutes * CentiPerHour + 60) \div (2 * 60)

\* makeDayjsFromJob falling back to the date alone when the time is missing.
makeDayjsFromJob_DateOnly(job_date, timeStr) ==
  IF job_date.kind = "none" THEN DjNull
  ELSE LET d == IF timeStr.kind = "none" THEN dayjsOfDate(job_date)
                ELSE dayjsOfDateTime(job_date, timeStr)
       IN  IF isValid(d) THEN d ELSE DjNull

\* The first tier without its cap, the second without its floor.
tier15_NoCap(overtime_total) == overtime_total
tier20_NoFloor(overtime_total) == overtime_total - WEEKLY_OT_FIRST_TIER_HOURS * CentiPerHour

\* roundToQuarterHour left out: durations keep hoursBetween's 0.01h grain.
roundToQuarterHour_Off(hours) == IF hours <= 0 THEN 0 ELSE hours

\* The daily stage crediting a full regular day whatever was worked.
dailyRegular_FullDay(dayHours) == DAILY_REGULAR_HOURS * CentiPerHour

\* part_002: regular hours without the 8h cap; ot15 with min and max swapped.
regularOf_NoCap(day) == Max(0, day.hours)
ot15Of_Max(overtimeHours) == Max(overtimeHours, WEEKLY_OT_FIRST_TIER_HOURS * CentiPerHour)

\* ------------------------------------------------ lib/time (part_006)
\* Decimal hours between two dayjs objects (or null), in centi-hours.
hoursBetween(start, end) ==
  IF start.tag = "null" \/ end.tag = "null" THEN 0
  ELSE IF ~isValid(start) \/ ~isValid(end) THEN 0
  ELSE LET diffMinutes == TruncDiv(end.t - start.t, SecPerMin)
       IN  IF diffMinutes <= 0 THEN 0
           \* Math.round((diffMinutes / 60) * 100) / 100, half up
           ELSE (2 * diffMinutes * CentiPerHour + 60) \div (2 * 60)

\* ------------------------------------------------------------- Week.jsx
makeDayjsFromJob(job_date, timeStr) ==
  IF job_date.kind = "none" \/ timeStr.kind = "none" THEN DjNull
  ELSE LET d == dayjsOfDateTime(job_date, timeStr)
       IN  IF isValid(d) THEN d ELSE DjNull

\* Math.round(h * 4) / 4 on centi-hours, half up; 0 for h <= 0.
roundToQuarterHour(hours) ==
  IF hours <= 0 THEN 0
  ELSE QuarterCenti * ((2 * hours + QuarterCenti) \div (2 * QuarterCenti))

\* Week.jsx 47-48: the daily stage applied to one (rounded) day total.
dailyRegular(dayHours) == Min(DAILY_REGULAR_HOURS * CentiPerHour, dayHours)
dailyOvertime(dayHours) == Max(0, dayHours - DAILY_REGULAR_HOURS * CentiPerHour)

\* Week.jsx 51-52: the weekly stage applied to the accumulated overtime.
tier15(overtime_total) == Min(WEEKLY_OT_FIRST_TIER_HOURS * CentiPerHour, overtime_total)
tier20(overtime_total) == Max(0, overtime_total - WEEKLY_OT_FIRST_TIER_HOURS * CentiPerHour)

\* The accumulators of the for-of loops over dayHoursMap.values().
RECURSIVE SumRegular(_), SumOvertime(_), SumRounded(_)
SumRegular(dayHours) ==
  IF dayHours = <<>> THEN 0
  ELSE dailyRegular(roundToQuarterHour(Head(dayHours).hours))
       + SumRegular(Tail(dayHours))

SumRounded(dayHours) ==
  IF dayHours = <<>> THEN 0
  ELSE roundToQuarterHour(Head(dayHours).hours) + SumRounded(Tail(dayHours))

\* Mutant: overtime taken from the week's hours beyond 8h a day on average.
SumOvertime_Averaged(dayHours) ==
  Max(0, SumRounded(dayHours) - DAILY_REGULAR_HOURS * CentiPerHour * Len(dayHours))

SumOvertime(dayHours) ==
  IF dayHours = <<>> THEN 0
  ELSE dailyOvertime(roundToQuarterHour(Head(dayHours).hours))
       + SumOvertime(Tail(dayHours))

splitWeekBucketsFromDailyTotals(dayHoursMap) ==
  LET hours_1x       == SumRegular(dayHoursMap)
      overtime_total == SumOvertime(dayHoursMap)
  IN  [hours_1x  |-> hours_1x,
       hours_15x |-> tier15(overtime_total),
       hours_2x  |-> tier20(overtime_total)]

\* Position of the entry with the given key in a Map, 0 when absent.
MapIndex(m, key) ==
  IF \E i \in 1..Len(m) : m[i].key = key
  THEN CHOOSE i \in 1..Len(m) : m[i].key = key
  ELSE 0

\* Mutant: one day entry per record instead of one per calendar date.
AddDayHours_PerRecord(dayHours, dayKey, hours) ==
  Append(dayHours, [key |-> dayKey, hours |-> hours])

\* w.dayHours.set(dayKey, (w.dayHours.get(dayKey) || 0) + hours)
AddDayHours(dayHours, dayKey, hours) ==
  LET i == MapIndex(dayHours, dayKey)
  IN  IF i = 0 THEN Append(dayHours, [key |-> dayKey, hours |-> hours])
      ELSE [dayHours EXCEPT ![i].hours = @ + hours]

\* One iteration of the loop over jobs (Week.jsx 105-132).
WeekLoopBody(m, j) ==
  LET d1        == makeDayjsFromJob(j.job_date, j.depart)
      d2        == makeDayjsFromJob(j.job_date, j.fin)
      hours     == roundToQuarterHour(hoursBetween(d1, d2))
      km        == IF j.km_aller.isNull THEN 0 ELSE j.km_aller.v
      weekStart == startOfIsoWeek(dayjsOfDate(j.job_date))
      key       == formatYearWeek(weekStart)
      map1      == IF MapIndex(m, key) # 0 THEN m
                   ELSE Append(m, [key      |-> key,
                                   start    |-> weekStart,
                                   end      |-> endOfIsoWeek(weekStart),
                                   totalKm  |-> 0,
                                   dayHours |-> <<>>])
      i         == MapIndex(map1, key)
      dayKey    == formatYMD(dayjsOfDate(j.job_date))
  IN  [map1 EXCEPT ![i].totalKm  = @ + km,
                   ![i].dayHours = AddDayHours(@, dayKey, hours)]

RECURSIVE WeekMapFrom(_, _)
WeekMapFrom(m, js) ==
  IF js = <<>> THEN m ELSE WeekMapFrom(WeekLoopBody(m, Head(js)), Tail(js))

\* Mutant: the loop filling the Map the previous run left behind.
WeekMap_Stale(js) == WeekMapFrom(map, js)

\* The Map built by the first loop (const map = new Map()).
WeekMap(js) == WeekMapFrom(<<>>, js)

\* One out.push(...) of the second loop (Week.jsx 135-150).
WeekOutEntry(w) ==
  LET b == splitWeekBucketsFromDailyTotals(w.dayHours)
  IN  [start      |-> w.start,
       end        |-> w.end,
       totalKm    |-> w.totalKm,
       totalHours |-> SumRounded(w.dayHours),
       hours1x    |-> b.hours_1x,
       hours15x   |-> b.hours_15x,
       hours2x    |-> b.hours_2x]

WeekOut(m) == [i \in 1..Len(m) |-> WeekOutEntry(m[i])]

\* ------------------------------------------------- Array.prototype.sort
\* The permutations of the indices of an array of length n.
RECURSIVE PermsOf(_)
PermsOf(S) ==
  IF S = {} THEN {<<>>}
  ELSE UNION {{<<x>> \o f : f \in PermsOf(S \ {x})} : x \in S}
Perms(n) == PermsOf(1..n)

\* The arrays s.sort(cmp) may return, c[i][j] being cmp(s[i], s[j]): the one
\* ordered by the comparator when the comparator orders the elements
\* consistently, any permutation otherwise (ECMAScript leaves the order
\* implementation-defined in that case).
SortOutcomes(s, c) ==
  LET n       == Len(s)
      ordered == {f \in Perms(n) :
                    \A i, j \in 1..n :
                      i < j => c[f[i]][f[j]] < 0 /\ c[f[j]][f[i]] > 0}
      chosen  == IF ordered # {} THEN ordered ELSE Perms(n)
  IN  {[i \in 1..n |-> s[f[i]]] : f \in chosen}

\* Week.jsx 152: (a, b) => (b.start.isAfter(a.start) ? 1 : -1)
weekCompare(a, b) == IF isAfter(b.start, a.start) THEN 1 ELSE -1

\* The values the useMemo of Week.jsx may return for a jobs array.
\* out.sort(weekCompare)
SortWeeks(out) ==
  SortOutcomes(out, [i \in 1..Len(out) |-> [k \in 1..Len(out) |-> weekCompare(out[i], out[k])]])

WeeklyOutcomes(js) == SortWeeks(WeekOut(WeekMap(js)))

\* sort is a function of its array in any one engine: an array equal to the
\* one sorted by the previous run comes back in the order it came back then,
\* also where the comparator leaves that order to the engine.
SortAgain(prevArr, prevSorted, arr, outcomes) ==
  IF arr = prevArr THEN {prevSorted} ELSE outcomes

\* ------------------------------------------- Week page, part_001
\* (Number(job?.km_aller ?? 0) || 0) + (Number(job?.km_retour ?? 0) || 0)
kmTotal(job) ==
  LET a == IF job.km_aller.isNull THEN 0 ELSE job.km_aller.v
      r == IF job.km_retour.isNull THEN 0 ELSE job.km_retour.v
  IN  a + r

\* Math.round(totalKm * 100) / 100, half up.
roundKm(totalKm) ==
  KmMilliPerCenti * ((2 * totalKm + KmMilliPerCenti) \div (2 * KmMilliPerCenti))

\* One iteration of the loop over jobs (part_001 119-147): the loop of
\* Week.jsx with w.totalKm += kmTotal(j).
WeekKmLoopBody(m, j) ==
  LET d1        == makeDayjsFromJob(j.job_date, j.depart)
      d2        == makeDayjsFromJob(j.job_date, j.fin)
      hours     == roundToQuarterHour(hoursBetween(d1, d2))
      weekStart == startOfIsoWeek(dayjsOfDate(j.job_date))
      key       == formatYearWeek(weekStart)
      map1      == IF MapIndex(m, key) # 0 THEN m
                   ELSE Append(m, [key      |-> key,
                                   start    |-> weekStart,
                                   end      |-> endOfIsoWeek(weekStart),
                                   totalKm  |-> 0,
                                   dayHours |-> <<>>])
      i         == MapIndex(map1, key)
      dayKey    == formatYMD(dayjsOfDate(j.job_date))
  IN  [map1 EXCEPT ![i].totalKm  = @ + kmTotal(j),
                   ![i].dayHours = AddDayHours(@, dayKey, hours)]

RECURSIVE WeekKmMapFrom(_, _)
WeekKmMapFrom(m, js) ==
  IF js = <<>> THEN m ELSE WeekKmMapFrom(WeekKmLoopBody(m, Head(js)), Tail(js))

WeekKmMap(js) == WeekKmMapFrom(<<>>, js)

\* One out.push(...) of the second loop (part_001 150-165).
WeekKmOutEntry(w) ==
  LET b == splitWeekBucketsFromDailyTotals(w.dayHours)
  IN  [start      |-> w.start,
       end        |-> w.end,
       totalKm    |-> roundKm(w.totalKm),
       totalHours |-> SumRounded(w.dayHours),
       hours1x    |-> b.hours_1x,
       hours15x   |-> b.hours_15x,
       hours2x    |-> b.hours_2x]

WeekKmOut(m) == [i \in 1..Len(m) |-> WeekKmOutEntry(m[i])]

\* part_001 167: the comparator of Week.jsx.
WeeklyKmOutcomes(js) == SortWeeks(WeekKmOut(WeekKmMap(js)))

\* ------------------------------------- Week page, part_002 (lines 260-)
\* parseJobDate, with the place it returned from: via is 0 for the !job_date
\* return, i for the return inside the loop at formats[i], and
\* Len(formats) + 1 for the return after the loop.
formats_Reversed ==
  <<"DD MMM YYYY", "YYYY-MM-DDTHH:mm:ss.SSSZ", "YYYY-MM-DDTHH:mm:ssZ", "YYYY-MM-DD">>

formats ==
  <<"YYYY-MM-DD", "YYYY-MM-DDTHH:mm:ssZ", "YYYY-MM-DDTHH:mm:ss.SSSZ", "DD MMM YYYY">>

RECURSIVE tryFormats(_, _)
tryFormats(job_date, i) ==
  IF i > Len(formats)
  THEN [d   |-> IF isValid(dayjsOfDate(job_date)) THEN dayjsOfDate(job_date) ELSE DjNull,
        via |-> i]
  ELSE IF isValid(dayjsStrict(job_date, formats[i]))
  THEN [d |-> dayjsStrict(job_date, formats[i]), via |-> i]
  ELSE tryFormats(job_date, i + 1)

parseJobDateTrace(job_date) ==
  IF job_date.kind = "none" THEN [d |-> DjNull, via |-> 0]
  ELSE tryFormats(job_date, 1)

parseJobDate(job_date) == parseJobDateTrace(job_date).d

\* String(timeStr).slice(0, 5): "HH:mm" of "HH:mm:ss".
slice5(timeStr) == IF timeStr.kind = "hms" THEN HMS(timeStr.h, timeStr.m, 0) ELSE timeStr

makeDayTime(job_date, timeStr) ==
  LET d == parseJobDate(job_date)
  IN  IF d.tag = "null" \/ timeStr.kind = "none" THEN DjNull
      ELSE LET c  == CivilFromDays(d.t \div SecPerDay)
               dt == dayjsOfDateTime(YMD(c[1], c[2], c[3]), slice5(timeStr))
           IN  IF isValid(dt) THEN dt ELSE DjNull

clamp(n, min, max) == Max(min, Min(max, n))

\* Number(j.km_aller ?? 0) || 0
kmAllerOf(j) == IF j.km_aller.isNull THEN 0 ELSE j.km_aller.v

\* isNonEmptyOT(j.ot)
isNonEmptyOT(ot) == ot # ""

\* One iteration of the loop over jobs (part_002 376-410).
DailyLoopBody(dailyMap, j) ==
  LET d == parseJobDate(j.job_date)
  IN  IF d.tag = "null" THEN dailyMap
      ELSE
        LET dayKey == formatYMD(d)
            map1   == IF MapIndex(dailyMap, dayKey) # 0 THEN dailyMap
                      ELSE Append(dailyMap, [key |-> dayKey, date |-> d, hours |-> 0,
                                             km |-> 0, otCount |-> 0, jobCount |-> 0])
            i      == MapIndex(map1, dayKey)
            d1     == makeDayTime(j.job_date, j.depart)
            d2     == makeDayTime(j.job_date, j.fin)
            h      == IF d1.tag # "null" /\ d2.tag # "null" THEN hoursBetween(d1, d2) ELSE 0
        IN  [map1 EXCEPT ![i].jobCount = @ + 1,
                         ![i].hours    = @ + h,
                         ![i].km       = @ + kmAllerOf(j),
                         ![i].otCount  = @ + (IF isNonEmptyOT(j.ot) THEN 1 ELSE 0)]

RECURSIVE DailyMapFrom(_, _)
DailyMapFrom(dailyMap, js) ==
  IF js = <<>> THEN dailyMap
  ELSE DailyMapFrom(DailyLoopBody(dailyMap, Head(js)), Tail(js))

DailyMap(js) == DailyMapFrom(<<>>, js)

\* part_002 419-420: the daily stage.
regularOf(day) == clamp(day.hours, 0, DAILY_REGULAR_HOURS * CentiPerHour)
overtimeOf(day) == Max(day.hours - DAILY_REGULAR_HOURS * CentiPerHour, 0)

\* One iteration of the loop over dailyMap.values() (part_002 415-438).
WeeklyLoopBody(weeklyMap, day) ==
  LET weekStart == startOfIsoWeek(day.date)
      weekKey   == formatYMD(weekStart)
      map1      == IF MapIndex(weeklyMap, weekKey) # 0 THEN weeklyMap
                   ELSE Append(weeklyMap, [key           |-> weekKey,
                                           start         |-> weekStart,
                                           end           |-> endOfIsoWeek(weekStart),
                                           regularHours  |-> 0,
                                           overtimeHours |-> 0,
                                           totalKm       |-> 0,
                                           dayKeys       |-> <<>>])
      i         == MapIndex(map1, weekKey)
  IN  [map1 EXCEPT ![i].regularHours  = @ + regularOf(day),
                   ![i].overtimeHours = @ + overtimeOf(day),
                   ![i].totalKm       = @ + day.km,
                   ![i].dayKeys       = Append(@, formatYMD(day.date))]

RECURSIVE WeeklyMapFrom(_, _)
WeeklyMapFrom(weeklyMap, days) ==
  IF days = <<>> THEN weeklyMap
  ELSE WeeklyMapFrom(WeeklyLoopBody(weeklyMap, Head(days)), Tail(days))

\* part_002 441-442: the weekly stage.
ot15Of(overtimeHours) == Min(overtimeHours, WEEKLY_OT_FIRST_TIER_HOURS * CentiPerHour)
ot20Of(overtimeHours) == Max(overtimeHours - WEEKLY_OT_FIRST_TIER_HOURS * CentiPerHour, 0)

\* part_002 445-447: day keys newest first.
dayKeyCompare(a, b) ==
  IF isAfter(dayjsOfDate(YMD(a.y, a.m, a.d)), dayjsOfDate(YMD(b.y, b.m, b.d)))
  THEN -1 ELSE 1

\* Array.from(new Set(w.dayKeys)).sort(dayKeyCompare); the keys pushed for
\* a week are already distinct.
SortDayKeys(keys) ==
  SortOutcomes(keys, [i \in 1..Len(keys) |-> [k \in 1..Len(keys) |-> dayKeyCompare(keys[i], keys[k])]])

\* One element of weeklyArr (part_002 440-456).
WeeklyArrEntry(w) ==
  [start         |-> w.start,
   end           |-> w.end,
   regularHours  |-> w.regularHours,
   overtimeHours |-> w.overtimeHours,
   totalKm       |-> w.totalKm,
   ot15          |-> ot15Of(w.overtimeHours),
   ot20          |-> ot20Of(w.overtimeHours),
   totalHours    |-> w.regularHours + w.overtimeHours,
   \* the day keys of a week are distinct valid dates: one outcome
   dayKeys       |-> CHOOSE p \in SortDayKeys(w.dayKeys) : TRUE]

\* part_002 459: (a, b) => (a.start.isAfter(b.start) ? -1 : 1)
weeklyArrCompare(a, b) == IF isAfter(a.start, b.start) THEN -1 ELSE 1

WeeklyArr(dailyMap) ==
  LET weeklyMap == WeeklyMapFrom(<<>>, dailyMap)
  IN  [i \in 1..Len(weeklyMap) |-> WeeklyArrEntry(weeklyMap[i])]

\* The values of "weekly" the useMemo of part_002 may return.
\* weeklyArr.sort(weeklyArrCompare)
SortWeeklyArr(arr) ==
  SortOutcomes(arr, [i \in 1..Len(arr) |-> [k \in 1..Len(arr) |-> weeklyArrCompare(arr[i], arr[k])]])

WeeklyParsedOutcomes(js) == SortWeeklyArr(WeeklyArr(DailyMap(js)))

\* ------------------------------------------------------- input domains
Job(date, depart, fin, kmA, kmR, ot) ==
  [job_date |-> date, depart |-> depart, fin |-> fin,
   km_aller |-> kmA, km_retour |-> kmR, ot |-> ot]

\* Monday and Tuesday of one week, the Monday after, the Monday of the week
\* that straddles the next new year, a row without a date, and one whose
\* date is a text dayjs cannot parse.
JobDates ==
  {YMD(2024, 1, 1), YMD(2024, 1, 2), YMD(2024, 1, 8), YMD(2024, 12, 30), NoDate, BadDate}

TimeStrs == {NoTime, BadTime, HMS(7, 0, 0), HMS(17, 0, 0)}

\* The ends of the 07:00 shifts entered on a date: none yet, 5h, 5h10, 8h30,
\* 9h and 10h after the start on the first Monday, fewer on the other dates.
FinsOn(d) ==
  IF d = YMD(2024, 1, 1)
  THEN {NoTime, HMS(12, 0, 0), HMS(12, 10, 0), HMS(15, 30, 0), HMS(16, 0, 0), HMS(17, 0, 0)}
  ELSE IF d = YMD(2024, 1, 2) THEN {HMS(12, 10, 0), HMS(16, 0, 0)}
  ELSE IF d = YMD(2024, 1, 8) THEN {HMS(12, 10, 0), HMS(17, 0, 0)}
  ELSE IF d = BadDate THEN {HMS(16, 0, 0)}
  ELSE {NoTime, HMS(16, 0, 0)}

\* Rows that differ by date, by their times, by their distances and by ot.
DateVariants ==
  {Job(df[1], HMS(7, 0, 0), df[2], NoKm, NoKm, "OT-1") :
     df \in {x \in JobDates \X (TimeStrs \cup FinsOn(YMD(2024, 1, 1))) : x[2] \in FinsOn(x[1])}}
TimeVariants ==
  {Job(YMD(2024, 1, 1), t1, t2, NoKm, NoKm, "OT-1") : t1 \in TimeStrs, t2 \in TimeStrs}
KmVariants ==
  {Job(YMD(2024, 1, 1), HMS(7, 0, 0), f, a, r, "OT-1") :
     f \in {NoTime, HMS(16, 0, 0)}, a \in {NoKm, Km(12500)}, r \in {NoKm, Km(3000)}}
OtVariants == {Job(YMD(2024, 1, 1), HMS(7, 0, 0), HMS(12, 0, 0), NoKm, NoKm, "")}
\* Times the form stores with seconds that are not zero.
SecondsVariants ==
  {Job(YMD(2024, 1, 1), HMS(7, 0, 30), HMS(15, 23, 0), NoKm, NoKm, "OT-1"),
   Job(YMD(2024, 1, 1), HMS(7, 0, 0), HMS(15, 23, 45), NoKm, NoKm, "OT-1")}

JobRows ==
  DateVariants \cup TimeVariants \cup KmVariants \cup OtVariants \cup SecondsVariants

\* .order("job_date", { ascending: false }): newest first, null dates first;
\* a text that is no date may sort anywhere among the dates.
DateOrdered(a, b) ==
  \/ a.job_date.kind = "none"
  \/ /\ b.job_date.kind # "none"
     /\ \/ a.job_date.kind = "bad"
        \/ b.job_date.kind = "bad"
        \/ dayjsOfDate(a.job_date).t >= dayjsOfDate(b.job_date).t

SeqsUpTo(S, n) == UNION {[1..k -> S] : k \in 0..n}

\* What the jobs query of load() may return.
QueryResults ==
  {js \in SeqsUpTo(JobRows, MaxJobs) :
     \A i, k \in 1..Len(js) : i < k => DateOrdered(js[i], js[k])}

\* ------------------------------------------------------- state machine
\* The Week page right after it is mounted.
PageInit ==
  /\ pc = "mounted"
  /\ jobs = <<>>
  /\ err = ""
  /\ renders = 0
  /\ map = <<>>
  /\ weekly = <<>>
  /\ dailyByKey = <<>>
  /\ weeklyP = <<>>
  /\ mapKm = <<>>
  /\ weeklyKm = <<>>

\* No helper call under way.
NoInput == [kind |-> "none"]
NoOutput == [fn |-> "none"]

\* No table, dashboard, History page or form in use.
FlowIdle ==
  /\ db = <<>>
  /\ sheet = <<>>
  /\ calls = <<>>
  /\ mgr = [pc |-> "closed"]
  /\ hist = [pc |-> "closed"]
  /\ form = [pc |-> "closed"]

Init ==
  /\ PageInit
  /\ input = NoInput
  /\ output = NoOutput
  /\ FlowIdle

\* load(): the query succeeded, setJobs(data || []).
Load ==
  /\ pc = "mounted"
  /\ \E js \in QueryResults : jobs' = js
  /\ pc' = "loaded"
  /\ UNCHANGED <<err, renders, map, weekly, dailyByKey, weeklyP, mapKm, weeklyKm>>
  /\ UNCHANGED otherVars

\* load(): the query failed, setErr(...).
LoadFail ==
  /\ pc = "mounted"
  /\ err' = "Failed to load weekly summary."
  /\ pc' = "failed"
  /\ UNCHANGED <<jobs, renders, map, weekly, dailyByKey, weeklyP, mapKm, weeklyKm>>
  /\ UNCHANGED otherVars

\* Week.jsx: the useMemo body runs for the jobs array, the first time or
\* again (a render with a new array of the same rows).
RenderWeek ==
  /\ pc \in {"loaded", "week"}
  /\ renders < MaxRenders
  /\ map' = WeekMap(jobs)
  /\ weekly' \in SortAgain(WeekOut(map), weekly, WeekOut(map'),
                           SortWeeks(WeekOut(map')))
  /\ renders' = renders + 1
  /\ pc' = "week"
  /\ UNCHANGED <<jobs, err, dailyByKey, weeklyP, mapKm, weeklyKm>>
  /\ UNCHANGED otherVars

\* part_002: the useMemo body runs for the jobs array, the first time or again.
RenderWeekParsed ==
  /\ pc \in {"loaded", "weekP"}
  /\ renders < MaxRenders
  /\ dailyByKey' = DailyMap(jobs)
  /\ weeklyP' \in SortAgain(WeeklyArr(dailyByKey), weeklyP, WeeklyArr(dailyByKey'),
                            SortWeeklyArr(WeeklyArr(dailyByKey')))
  /\ renders' = renders + 1
  /\ pc' = "weekP"
  /\ UNCHANGED <<jobs, err, map, weekly, mapKm, weeklyKm>>
  /\ UNCHANGED otherVars

\* part_001: the useMemo body runs for the jobs array, the first time or again.
RenderWeekKm ==
  /\ pc \in {"loaded", "weekKm"}
  /\ renders < MaxRenders
  /\ mapKm' = WeekKmMap(jobs)
  /\ weeklyKm' \in SortAgain(WeekKmOut(mapKm), weeklyKm, WeekKmOut(mapKm'),
                             SortWeeks(WeekKmOut(mapKm')))
  /\ renders' = renders + 1
  /\ pc' = "weekKm"
  /\ UNCHANGED <<jobs, err, map, weekly, dailyByKey, weeklyP>>
  /\ UNCHANGED otherVars

Next == Load \/ LoadFail \/ RenderWeek \/ RenderWeekParsed \/ RenderWeekKm

Spec == Init /\ [][Next]_vars

\* ================================================== helper functions
\* JS numbers the formatters meet: a finite value, NaN, Infinity, -Infinity.
\* Hours are carried in centi-hours, minutes and label parts in units.
JsNum(v) == [tag |-> "fin", v |-> v]
JsNaN == [tag |-> "nan", v |-> 0]
JsInf == [tag |-> "inf", v |-> 0]
JsNegInf == [tag |-> "-inf", v |-> 0]

\* !x || x <= 0 for a number x.
falsyOrNonPositive(x) ==
  x.tag = "nan" \/ x.tag = "-inf" \/ (x.tag = "fin" /\ x.v <= 0)

\* Math.round(hours * 60): to the nearest integer, a half toward +Infinity.
roundMinutes(hours) ==
  IF hours.tag = "fin"
  THEN JsNum((2 * hours.v * 60 + CentiPerHour) \div (2 * CentiPerHour))
  ELSE hours

\* Math.floor(totalMinutes / 60)
floorHours(totalMinutes) ==
  IF totalMinutes.tag = "fin" THEN JsNum(totalMinutes.v \div 60) ELSE totalMinutes

\* totalMinutes % 60: the remainder has the sign of the dividend, and is NaN
\* for an infinite dividend.
remMinutes(totalMinutes) ==
  IF totalMinutes.tag # "fin" THEN JsNaN
  ELSE IF totalMinutes.v >= 0 THEN JsNum(totalMinutes.v % 60)
  ELSE JsNum(-((-totalMinutes.v) % 60))

\* The text `${h}h${String(m).padStart(2, "0")}`, kept as its two numbers:
\* h printed as JS prints a number, then "h", then m printed and padded on
\* the left to two characters ("5" -> "05", "45", "-45", "NaN").
Label(h, m) == [h |-> h, m |-> m]

\* Week.jsx 33-39
formatHoursHM(hours) ==
  IF falsyOrNonPositive(hours) THEN Label(JsNum(0), JsNum(0))
  ELSE LET totalMinutes == roundMinutes(hours)
       IN  Label(floorHours(totalMinutes), remMinutes(totalMinutes))

\* part_002 304-309: (hoursFloat || 0) replaces only 0 and NaN.
formatHoursHMParsed(hoursFloat) ==
  LET h0 == IF hoursFloat.tag = "nan" THEN JsNum(0) ELSE hoursFloat
      totalMinutes == roundMinutes(h0)
  IN  Label(floorHours(totalMinutes), remMinutes(totalMinutes))

\* part_006 26-29: formatHours, the text with two decimals ("0.51") kept as
\* its integer part and its two decimal digits.
formatHours(hours) ==
  IF hours <= 0 THEN [int |-> 0, frac |-> 0]
  ELSE [int |-> hours \div CentiPerHour, frac |-> hours % CentiPerHour]

\* History.jsx 29-36: Number(...) reads the text back, then the label.
toHHmmLabelFromFormatHours(formatHoursResult) ==
  LET num == JsNum(formatHoursResult.int * CentiPerHour + formatHoursResult.frac)
  IN  IF num.tag # "fin" \/ num.v <= 0 THEN Label(JsNum(0), JsNum(0))
      ELSE LET totalMinutes == roundMinutes(num)
           IN  Label(floorHours(totalMinutes), remMinutes(totalMinutes))

\* History.jsx 81-89
RECURSIVE sumHoursForJobs(_)
sumHoursForJobs(list) ==
  IF list = <<>> THEN 0
  ELSE LET j  == Head(list)
           d1 == makeDayjsFromJob(j.job_date, j.depart)
           d2 == makeDayjsFromJob(j.job_date, j.fin)
       IN  hoursBetween(d1, d2) + sumHoursForJobs(Tail(list))

\* History.jsx 98-102: one iteration of the grouping loop.
GroupLoopBody(m, j) ==
  LET key  == formatYMD(dayjsOfDate(j.job_date))
      map1 == IF MapIndex(m, key) # 0 THEN m ELSE Append(m, [key |-> key, list |-> <<>>])
      i    == MapIndex(map1, key)
  IN  [map1 EXCEPT ![i].list = Append(@, j)]

RECURSIVE GroupMapFrom(_, _)
GroupMapFrom(m, js) ==
  IF js = <<>> THEN m ELSE GroupMapFrom(GroupLoopBody(m, Head(js)), Tail(js))

\* History.jsx 104-113: the day groups with their total label.
grouped(js) ==
  LET m == GroupMapFrom(<<>>, js)
  IN  [i \in 1..Len(m) |->
         [date      |-> m[i].key,
          list      |-> m[i].list,
          totalHHmm |-> toHHmmLabelFromFormatHours(formatHours(sumHoursForJobs(m[i].list)))]]

\* ------------------------------------------ inputs of the helper functions
MaxCenti == 300      \* the largest hours value formatted, in centi-hours
MaxDayRows == 3      \* records of one History page

DateTexts ==
  {YMD(2024, 1, 1), YMD(2024, 2, 29), YMD(2024, 2, 30), YMD(2023, 2, 29),
   TS(2024, 1, 1, 0, 0, 0, 0), TS(2024, 1, 1, 0, 0, 0, 300), TS(2024, 1, 1, 23, 30, 0, -60),
   TSms(2024, 1, 1, 8, 15, 0, 0), TSms(2024, 1, 1, 0, 0, 0, 300),
   Slash(2024, 1, 1), NoDate, BadDate}
  \cup {DMY(1, 1, 2024, e) : e \in BOOLEAN}
  \cup {DMY(30, 2, 2024, e) : e \in BOOLEAN}
  \cup {Words(2024, 1, 1, e) : e \in BOOLEAN}

HourValues == {JsNum(c) : c \in (0 - MaxCenti)..MaxCenti} \cup {JsNaN, JsInf, JsNegInf}

\* Short records of two days: 10, 20 and 60 minutes from 07:00.
DayRows ==
  {Job(d, HMS(7, 0, 0), f, NoKm, NoKm, "OT-1") :
     d \in {YMD(2024, 1, 1), YMD(2024, 1, 2)},
     f \in {HMS(7, 10, 0), HMS(7, 20, 0), HMS(8, 0, 0)}}

FmtInputs ==
  {[kind |-> "date", v |-> t] : t \in DateTexts}
  \cup {[kind |-> "hours", v |-> h] : h \in HourValues}
  \cup {[kind |-> "rows", v |-> js] : js \in SeqsUpTo(DayRows, MaxDayRows)}

\* ---------------------------------------------- the helpers, called once
InitFmt ==
  /\ PageInit
  /\ input \in FmtInputs
  /\ output = NoOutput
  /\ FlowIdle

CallParseJobDate ==
  /\ input.kind = "date" /\ output = NoOutput
  /\ output' = [fn |-> "parseJobDate", v |-> parseJobDateTrace(input.v)]
  /\ UNCHANGED <<pageVars, flowVars, input>>

CallFormatHoursHM ==
  /\ input.kind = "hours" /\ output = NoOutput
  /\ output' = [fn |-> "formatHoursHM", v |-> formatHoursHM(input.v)]
  /\ UNCHANGED <<pageVars, flowVars, input>>

CallFormatHoursHMParsed ==
  /\ input.kind = "hours" /\ output = NoOutput
  /\ output' = [fn |-> "formatHoursHMParsed", v |-> formatHoursHMParsed(input.v)]
  /\ UNCHANGED <<pageVars, flowVars, input>>

\* formatHours then the History label, for a finite hours value.
CallToHHmmLabel ==
  /\ input.kind = "hours" /\ input.v.tag = "fin" /\ output = NoOutput
  /\ output' = [fn |-> "toHHmmLabelFromFormatHours",
                v  |-> toHHmmLabelFromFormatHours(formatHours(input.v.v))]
  /\ UNCHANGED <<pageVars, flowVars, input>>

CallGrouped ==
  /\ input.kind = "rows" /\ output = NoOutput
  /\ output' = [fn |-> "grouped", v |-> grouped(input.v)]
  /\ UNCHANGED <<pageVars, flowVars, input>>

NextFmt ==
  CallParseJobDate \/ CallFormatHoursHM \/ CallFormatHoursHMParsed
    \/ CallToHHmmLabel \/ CallGrouped

SpecFmt == InitFmt /\ [][NextFmt]_vars

\* ===================================================== approval and export
\* supabase/functions/push_approved_to_sheet/index.ts (two versions of the
\* function, lines 18-173 and 207-400) and the manager dashboard
\* (src/src/pages/ManagerDashboard.jsx).
MaxFlowJobs == 2     \* rows of the jobs table
MaxPosts == 2        \* rows the spreadsheet endpoint appends for one job

JobIds == 1..MaxFlowJobs

\* A row of the jobs table (absent: status "none") with the columns the
\* approval reads and writes.
Row(status, user_id, job_date) ==
  [status |-> status, locked |-> status # "saved", exported_to_sheet |-> FALSE,
   user_id |-> user_id, job_date |-> job_date]
NoRow == [Row("none", "", NoDate) EXCEPT !.locked = FALSE]

\* The rows the table may hold when the dashboard opens: drafts and submitted
\* jobs of two employees, in the first two weeks of 2024 and in the week of
\* Monday 2024-12-30.
FlowRows ==
  {NoRow,
   Row("saved", "u1", YMD(2024, 1, 1)),
   Row("submitted", "u1", YMD(2024, 1, 1)),
   Row("submitted", "u1", YMD(2024, 1, 8)),
   Row("submitted", "u1", YMD(2024, 12, 30)),
   Row("submitted", "u2", YMD(2024, 1, 1))}

\* json(body, status): the status code and the ok and skipped members.
Resp(code, ok, skipped) == [code |-> code, ok |-> ok, skipped |-> skipped]
NoResp == Resp(0, FALSE, FALSE)

\* An invocation: where it stands, its job_id, whose token it carries
\* ("manager", "employee": a valid session of another role, "none": no or an
\* invalid token), the version of the function that serves it, its response.
IdleCall == [pc |-> "idle", job_id |-> 0, caller |-> "none", version |-> 0, resp |-> NoResp]
NewCall(job_id, caller, version) ==
  [pc |-> "start", job_id |-> job_id, caller |-> caller, version |-> version, resp |-> NoResp]

\* index.ts 242-280 (second version only): the caller must hold a valid
\* session whose profile role is manager.  NoResp: the check passed.
checkCaller(caller) ==
  IF caller = "none" THEN Resp(401, FALSE, FALSE)
  ELSE IF caller # "manager" THEN Resp(403, FALSE, FALSE)
  ELSE NoResp

\* index.ts 51-74 and 285-308: the job must exist and be submitted; an
\* exported job is skipped.
checkJob(row) ==
  IF row.status = "none" THEN Resp(400, FALSE, FALSE)
  ELSE IF row.status # "submitted" THEN Resp(400, FALSE, FALSE)
  ELSE IF row.exported_to_sheet THEN Resp(200, TRUE, TRUE)
  ELSE NoResp

\* The function up to the payload: the response it returns, NoResp to go on.
FnCheck(p) ==
  /\ calls[p].pc = "start"
  /\ LET c == calls[p]
         r == IF c.version = 2 /\ checkCaller(c.caller) # NoResp
              THEN checkCaller(c.caller)
              ELSE checkJob(db[c.job_id])
     IN  calls' = [calls EXCEPT ![p].pc = IF r = NoResp THEN "post" ELSE "done",
                                ![p].resp = r]
  /\ UNCHANGED <<pageVars, fmtVars, db, sheet, mgr, hist, form>>

\* index.ts 122-148, 345-372: the POST is answered with an OK status.
FnFetchOk(p) ==
  /\ calls[p].pc = "post"
  /\ sheet[calls[p].job_id] < MaxPosts
  /\ sheet' = [sheet EXCEPT ![calls[p].job_id] = @ + 1]
  /\ calls' = [calls EXCEPT ![p].pc = "mark"]
  /\ UNCHANGED <<pageVars, fmtVars, db, mgr, hist, form>>

\* Mutant: a failed POST still marks the job exported.
FnFetchFail_Marks(p) ==
  /\ calls[p].pc = "post"
  /\ sheet' = sheet
  /\ db' = [db EXCEPT ![calls[p].job_id].exported_to_sheet = TRUE]
  /\ calls' = [calls EXCEPT ![p].pc = "done", ![p].resp = Resp(502, FALSE, FALSE)]
  /\ UNCHANGED <<pageVars, fmtVars, mgr, hist, form>>

\* index.ts 139-155, 363-378: fetch throws (no connection, the 12 s abort)
\* or the answer is not OK; the endpoint may have appended the row before the
\* abort.
FnFetchFail(p) ==
  /\ calls[p].pc = "post"
  /\ \E appended \in BOOLEAN :
       /\ appended => sheet[calls[p].job_id] < MaxPosts
       /\ sheet' = [sheet EXCEPT ![calls[p].job_id] = IF appended THEN @ + 1 ELSE @]
  /\ calls' = [calls EXCEPT ![p].pc = "done", ![p].resp = Resp(502, FALSE, FALSE)]
  /\ UNCHANGED <<pageVars, fmtVars, db, mgr, hist, form>>

\* index.ts 157-168, 380-395: mark the job exported, or markErr.
FnMark(p) ==
  /\ calls[p].pc = "mark"
  /\ \/ /\ db' = [db EXCEPT ![calls[p].job_id].exported_to_sheet =
                                 IF db[calls[p].job_id].status = "none" THEN @ ELSE TRUE]
        /\ calls' = [calls EXCEPT ![p].pc = "done", ![p].resp = Resp(200, TRUE, FALSE)]
     \/ /\ db' = db
        /\ calls' = [calls EXCEPT ![p].pc = "done", ![p].resp = Resp(500, FALSE, FALSE)]
  /\ UNCHANGED <<pageVars, fmtVars, sheet, mgr, hist, form>>

\* A request sent to the function from outside the dashboard.
ExtInvoke ==
  /\ calls["ext"].pc = "idle"
  /\ \E j \in JobIds, caller \in {"manager", "employee", "none"}, v \in {1, 2} :
       calls' = [calls EXCEPT !["ext"] = NewCall(j, caller, v)]
  /\ UNCHANGED <<pageVars, fmtVars, db, sheet, mgr, hist, form>>

ExtReturn ==
  /\ calls["ext"].pc = "done"
  /\ calls' = [calls EXCEPT !["ext"] = IdleCall]
  /\ UNCHANGED <<pageVars, fmtVars, db, sheet, mgr, hist, form>>

\* ------------------------------------------------------ ManagerDashboard.jsx
\* "latest", the value of selectedWeekKey that names no week.
LatestKey == [valid |-> TRUE, year |-> 0, week |-> 0]

\* ManagerDashboard.jsx 37-40
weekKeyFromDate(dateStr) == formatYearWeek(startOfIsoWeek(dayjsOfDate(dateStr)))

\* The ids of S in the order of load(): job_date descending (then by id).
OrderIds(S, d) ==
  CHOOSE q \in [1..Cardinality(S) -> S] :
    \A i, k \in 1..Cardinality(S) :
      i < k => /\ q[i] # q[k]
               /\ \/ dayjsOfDate(d[q[i]].job_date).t > dayjsOfDate(d[q[k]].job_date).t
                  \/ /\ dayjsOfDate(d[q[i]].job_date).t = dayjsOfDate(d[q[k]].job_date).t
                     /\ q[i] < q[k]

\* split.submitted (filtered, 130-162) for employeeId e: the submitted rows
\* of the loaded jobs that belong to e; no status filter, no search text.
splitSubmitted(js, e, d) ==
  IF e = "all" THEN <<>>
  ELSE OrderIds({j \in JobIds : js[j] = "submitted" /\ d[j].user_id = e}, d)

\* weekOptions (174-188): the keys of the options, newest first.
RECURSIVE weekOptions(_, _)
weekOptions(sub, d) ==
  IF sub = <<>> THEN <<>>
  ELSE LET rest == weekOptions(Tail(sub), d)
           key  == weekKeyFromDate(d[Head(sub)].job_date)
       IN  <<key>> \o SelectSeq(rest, LAMBDA k : k # key)

\* submittedForSelectedWeek (199-204)
submittedForSelectedWeek(sub, key, d) ==
  IF sub = <<>> THEN <<>>
  ELSE IF key = LatestKey THEN sub
  ELSE SelectSeq(sub, LAMBDA j : weekKeyFromDate(d[j].job_date) = key)

\* load(): setJobs(jobRows), the status of each row.
loadJobs(d) == [j \in JobIds |-> d[j].status]

InitExport ==
  /\ PageInit
  /\ input = NoInput /\ output = NoOutput
  /\ db \in [JobIds -> FlowRows]
  /\ sheet = [j \in JobIds |-> 0]
  /\ calls = [p \in {"mgr", "ext"} |-> IdleCall]
  /\ mgr = [pc |-> "idle", jobs |-> [j \in JobIds |-> "none"], employeeId |-> "all",
            selectedWeekKey |-> LatestKey, list |-> <<>>]
  /\ hist = [pc |-> "closed"]
  /\ form = [pc |-> "closed"]

\* The dashboard loads or reloads its jobs.
MgrLoad ==
  /\ mgr.pc = "idle"
  /\ mgr' = [mgr EXCEPT !.jobs = loadJobs(db)]
  /\ UNCHANGED <<pageVars, fmtVars, db, sheet, calls, hist, form>>

\* An employee is chosen in the filter; the effect of 190-197 then selects
\* the first week option, or "latest" when there is none.
SelectEmployee ==
  /\ mgr.pc = "idle"
  /\ \E e \in {"all"} \cup {db[j].user_id : j \in {i \in JobIds : mgr.jobs[i] # "none"}} :
       /\ e # mgr.employeeId
       /\ mgr' = [mgr EXCEPT
            !.employeeId = e,
            !.selectedWeekKey =
               IF weekOptions(splitSubmitted(mgr.jobs, e, db), db) = <<>> THEN LatestKey
               ELSE weekOptions(splitSubmitted(mgr.jobs, e, db), db)[1]]
  /\ UNCHANGED <<pageVars, fmtVars, db, sheet, calls, hist, form>>

\* A week is chosen among the options (496).
SelectWeek ==
  /\ mgr.pc = "idle"
  /\ \E i \in 1..Len(weekOptions(splitSubmitted(mgr.jobs, mgr.employeeId, db), db)) :
       mgr' = [mgr EXCEPT !.selectedWeekKey =
                 weekOptions(splitSubmitted(mgr.jobs, mgr.employeeId, db), db)[i]]
  /\ UNCHANGED <<pageVars, fmtVars, db, sheet, calls, hist, form>>

\* approve(jobId), 216-232: the Approve button of a card shown as submitted.
ApproveClick ==
  /\ mgr.pc = "idle"
  /\ \E j \in JobIds, v \in {1, 2} :
       /\ mgr.jobs[j] = "submitted"
       /\ mgr.employeeId \in {"all", db[j].user_id}
       /\ mgr' = [mgr EXCEPT !.pc = "approve", !.list = <<j>>]
       /\ calls' = [calls EXCEPT !["mgr"] = NewCall(j, "manager", v)]
  /\ UNCHANGED <<pageVars, fmtVars, db, sheet, hist, form>>

\* approveWeekAll(), 256-296: the list is taken, the first job is sent.
ApproveWeekClick ==
  /\ mgr.pc = "idle"
  /\ LET list == submittedForSelectedWeek(splitSubmitted(mgr.jobs, mgr.employeeId, db),
                                          mgr.selectedWeekKey, db)
     IN  /\ list # <<>>
         /\ mgr' = [mgr EXCEPT !.pc = "week", !.list = list]
         /\ \E v \in {1, 2} : calls' = [calls EXCEPT !["mgr"] = NewCall(list[1], "manager", v)]
  /\ UNCHANGED <<pageVars, fmtVars, db, sheet, hist, form>>

\* Mutant: the job is marked approved whatever the function answered.
ApproveUpdate_NoCheck ==
  /\ mgr.pc \in {"approve", "week"}
  /\ calls["mgr"].pc = "done"
  /\ db' = [db EXCEPT ![Head(mgr.list)] =
              IF @.status = "none" THEN @ ELSE [@ EXCEPT !.status = "approved", !.locked = TRUE]]
  /\ IF Tail(mgr.list) = <<>>
     THEN /\ mgr' = [mgr EXCEPT !.pc = "idle", !.list = <<>>, !.jobs = loadJobs(db')]
          /\ calls' = [calls EXCEPT !["mgr"] = IdleCall]
     ELSE /\ mgr' = [mgr EXCEPT !.list = Tail(@)]
          /\ calls' = [calls EXCEPT !["mgr"] = NewCall(mgr.list[2], "manager", calls["mgr"].version)]
  /\ UNCHANGED <<pageVars, fmtVars, sheet, hist, form>>

\* 234-247, 293-316: the function answered ok or skipped: the job is marked
\* approved; then the next job of the list is sent, or the jobs are reloaded.
ApproveUpdate ==
  /\ mgr.pc \in {"approve", "week"}
  /\ calls["mgr"].pc = "done"
  /\ calls["mgr"].resp.code = 200
  /\ calls["mgr"].resp.ok \/ calls["mgr"].resp.skipped
  /\ db' = [db EXCEPT ![Head(mgr.list)] =
              IF @.status = "none" THEN @ ELSE [@ EXCEPT !.status = "approved", !.locked = TRUE]]
  /\ IF Tail(mgr.list) = <<>>
     THEN /\ mgr' = [mgr EXCEPT !.pc = "idle", !.list = <<>>, !.jobs = loadJobs(db')]
          /\ calls' = [calls EXCEPT !["mgr"] = IdleCall]
     ELSE /\ mgr' = [mgr EXCEPT !.list = Tail(@)]
          /\ calls' = [calls EXCEPT !["mgr"] = NewCall(mgr.list[2], "manager", calls["mgr"].version)]
  /\ UNCHANGED <<pageVars, fmtVars, sheet, hist, form>>

\* 238-241, 298-301 and the catch blocks: the invocation returned an error
\* (a status other than 2xx, or a body neither ok nor skipped): the handler
\* throws, nothing is written and the jobs are not reloaded.
ApproveThrow ==
  /\ mgr.pc \in {"approve", "week"}
  /\ calls["mgr"].pc = "done"
  /\ ~(calls["mgr"].resp.code = 200 /\ (calls["mgr"].resp.ok \/ calls["mgr"].resp.skipped))
  /\ mgr' = [mgr EXCEPT !.pc = "idle", !.list = <<>>]
  /\ calls' = [calls EXCEPT !["mgr"] = IdleCall]
  /\ UNCHANGED <<pageVars, fmtVars, db, sheet, hist, form>>

NextExport ==
  \/ \E p \in {"mgr", "ext"} : FnCheck(p) \/ FnFetchOk(p) \/ FnFetchFail(p) \/ FnMark(p)
  \/ ExtInvoke \/ ExtReturn
  \/ MgrLoad \/ SelectEmployee \/ SelectWeek
  \/ ApproveClick \/ ApproveWeekClick \/ ApproveUpdate \/ ApproveThrow

SpecExport == InitExport /\ [][NextExport]_vars

\* ======================================================= editing and locks
\* The employee's pages: src/src/pages/History.jsx (open in two browser tabs)
\* and the job form of src/src/pages/ElectricianForm.jsx.

\* History.jsx 124-138: canOpen, canDelete and canSubmit are one test, made
\* on the job as the page loaded it (every job listed is the user's own).
canOpen(job) == job.status = "saved" /\ job.locked = FALSE

\* ElectricianForm.jsx 49; NoRow: loadedJob is null.
isDraftEditable(loadedJob) ==
  IF loadedJob # NoRow THEN loadedJob.status = "saved" /\ loadedJob.locked = FALSE ELSE TRUE

\* The table holds jobs of one employee on one day: drafts, submitted jobs,
\* and jobs a manager approved after their export.
InitEdit ==
  /\ PageInit
  /\ input = NoInput /\ output = NoOutput
  /\ db \in [JobIds -> {NoRow,
                        Row("saved", "u1", YMD(2024, 1, 1)),
                        Row("submitted", "u1", YMD(2024, 1, 1)),
                        [Row("approved", "u1", YMD(2024, 1, 1)) EXCEPT !.exported_to_sheet = TRUE]}]
  /\ sheet = <<>> /\ calls = <<>> /\ mgr = [pc |-> "closed"]
  /\ hist = [pc |-> "open", jobs |-> [t \in {1, 2} |-> [j \in JobIds |-> NoRow]]]
  /\ form = [pc |-> "closed", editId |-> 0, loadedJob |-> NoRow]

\* History.jsx 54-72: load() in tab t.
HistLoad(t) ==
  /\ hist' = [hist EXCEPT !.jobs[t] = db]
  /\ UNCHANGED <<pageVars, fmtVars, db, sheet, calls, mgr, form>>

\* History.jsx 120-122, 293: Open on a job of tab t navigates to the form
\* with ?edit=id; History.jsx 221: the link to the form for a new job (id 0).
openJob(t) ==
  /\ \E j \in JobIds \cup {0} :
       /\ j # 0 => canOpen(hist.jobs[t][j])
       /\ form' = [pc |-> IF j = 0 THEN "ready" ELSE "loading", editId |-> j, loadedJob |-> NoRow]
  /\ UNCHANGED <<pageVars, fmtVars, db, sheet, calls, mgr, hist>>

\* ElectricianForm.jsx 62-101: loadJob.  The select returns the row, or it
\* fails (no connection, no such row) and loadedJob stays null.
loadJob ==
  /\ form.pc = "loading"
  /\ \/ /\ db[form.editId] # NoRow
        /\ form' = [form EXCEPT !.pc = "ready", !.loadedJob = db[form.editId]]
     \/ form' = [form EXCEPT !.pc = "ready"]
  /\ UNCHANGED <<pageVars, fmtVars, db, sheet, calls, mgr, hist>>

\* ElectricianForm.jsx 121-175: saveDraft ("saved") and submit ("submitted").
\* Editing: update by id.  New job: upsert on (user_id, job_date, ot), which
\* inserts a row or, where the OT typed is that of a stored row of the day,
\* overwrites that row.  Then navigate("/history").
saveJob ==
  /\ form.pc = "ready"
  /\ \E nextStatus \in {"saved", "submitted"} :
       IF form.editId # 0
       THEN /\ isDraftEditable(form.loadedJob)
            /\ db' = [db EXCEPT ![form.editId] =
                        IF @ = NoRow THEN @
                        ELSE [@ EXCEPT !.status = nextStatus, !.locked = (nextStatus = "submitted")]]
       ELSE \E j \in JobIds :
              db' = [db EXCEPT ![j] =
                       IF @ = NoRow THEN Row(nextStatus, "u1", YMD(2024, 1, 1))
                       ELSE [@ EXCEPT !.status = nextStatus, !.locked = (nextStatus = "submitted")]]
  /\ form' = [pc |-> "closed", editId |-> 0, loadedJob |-> NoRow]
  /\ UNCHANGED <<pageVars, fmtVars, sheet, calls, mgr, hist>>

\* History.jsx 140-159: deleteJob, then load().
deleteJob(t) ==
  /\ \E j \in JobIds :
       /\ canOpen(hist.jobs[t][j])
       /\ db' = [db EXCEPT ![j] = NoRow]
  /\ hist' = [hist EXCEPT !.jobs[t] = db']
  /\ UNCHANGED <<pageVars, fmtVars, sheet, calls, mgr, form>>

\* History.jsx 161-180: submitJob, then load().
submitJob(t) ==
  /\ \E j \in JobIds :
       /\ canOpen(hist.jobs[t][j])
       /\ db' = [db EXCEPT ![j] =
                   IF @ = NoRow THEN @ ELSE [@ EXCEPT !.status = "submitted", !.locked = TRUE]]
  /\ hist' = [hist EXCEPT !.jobs[t] = db']
  /\ UNCHANGED <<pageVars, fmtVars, sheet, calls, mgr, form>>

\* History.jsx 112-114, 182-205: submitDay with the day's submittableIds,
\* then load().
submitDay(t) ==
  /\ \E j \in JobIds : canOpen(hist.jobs[t][j])
  /\ db' = [j \in JobIds |->
              IF canOpen(hist.jobs[t][j]) /\ db[j] # NoRow
              THEN [db[j] EXCEPT !.status = "submitted", !.locked = TRUE] ELSE db[j]]
  /\ hist' = [hist EXCEPT !.jobs[t] = db']
  /\ UNCHANGED <<pageVars, fmtVars, sheet, calls, mgr, form>>

NextEdit ==
  \/ \E t \in {1, 2} : HistLoad(t) \/ openJob(t) \/ deleteJob(t) \/ submitJob(t) \/ submitDay(t)
  \/ loadJob \/ saveJob

SpecEdit == InitEdit /\ [][NextEdit]_vars

\* ====================================================== reference notions
\* What the specification says of a row, written without the page's code.
HasDate(j) == j.job_date.kind = "ymd"
DayNo(j) == DaysFromCivil(j.job_date.y, j.job_date.m, j.job_date.d)

\* Monday of the Monday-to-Sunday week of a day number.
MondayOf(n) == n - ((n + 3) % 7)
SameIsoWeek(a, b) == MondayOf(DayNo(a)) = MondayOf(DayNo(b))

TimesPresent(j) == j.depart.kind = "hms" /\ j.fin.kind = "hms"
SecondsOfDay(t) == t.h * 3600 + t.m * 60 + t.s
\* Whole minutes from depart to end of a row whose times are present.
RawMinutes(j) == (SecondsOfDay(j.fin) - SecondsOfDay(j.depart)) \div 60
\* The same between the times as part_002 reads them, hours and minutes only.
HhMm(t) == IF t.kind = "hms" THEN [t EXCEPT !.s = 0] ELSE t
RawMinutesHM(j) == (SecondsOfDay(HhMm(j.fin)) - SecondsOfDay(HhMm(j.depart))) \div 60

\* a / b rounded to the nearest integer, halves up (a >= 0, b > 0).
RoundDiv(a, b) == (2 * a + b) \div (2 * b)
\* minutes / 60 to 0.01h, and a centi-hour value to the nearest 0.25h.
ToCenti(m) == RoundDiv(m * 100, 60)
ToQuarter(c) == 25 * RoundDiv(c, 25)

\* The duration a row contributes: 0 unless both times are present and the
\* end is after the depart.  quarter: as Week.jsx and part_001 count it (the
\* parsed instants, then the nearest 0.25h); otherwise as part_002 counts it
\* (hours and minutes of the times, 0.01h).
Contribution(j, quarter) ==
  IF ~(HasDate(j) /\ TimesPresent(j)) THEN 0
  ELSE IF quarter
       THEN (IF RawMinutes(j) > 0 THEN ToQuarter(ToCenti(RawMinutes(j))) ELSE 0)
       ELSE (IF RawMinutesHM(j) > 0 THEN ToCenti(RawMinutesHM(j)) ELSE 0)

RECURSIVE SumFn(_, _)
SumFn(f, n) == IF n = 0 THEN 0 ELSE f[n] + SumFn(f, n - 1)

\* Total of the contributions of the rows of js dated like row i.
DayTotalOf(js, i, quarter) ==
  SumFn([k \in 1..Len(js) |->
           IF js[k].job_date = js[i].job_date THEN Contribution(js[k], quarter) ELSE 0],
        Len(js))

FirstOfItsDate(js, i) == \A k \in 1..(i - 1) : js[k].job_date # js[i].job_date

CapAt(h, cap) == IF h < cap THEN h ELSE cap
Over(h, cap) == IF h > cap THEN h - cap ELSE 0

\* Sum over the distinct dates of js of min(8h, day total) and of
\* max(0, day total - 8h).
RegularOfJobs(js, quarter) ==
  SumFn([i \in 1..Len(js) |->
           IF FirstOfItsDate(js, i) THEN CapAt(DayTotalOf(js, i, quarter), 800) ELSE 0],
        Len(js))
OvertimeOfJobs(js, quarter) ==
  SumFn([i \in 1..Len(js) |->
           IF FirstOfItsDate(js, i) THEN Over(DayTotalOf(js, i, quarter), 800) ELSE 0],
        Len(js))

OneIsoWeek(js) ==
  /\ js # <<>>
  /\ \A i \in 1..Len(js) : HasDate(js[i])
  /\ \A i, k \in 1..Len(js) : SameIsoWeek(js[i], js[k])

Mon9h  == Job(YMD(2024, 1, 1), HMS(7, 0, 0), HMS(16, 0, 0), NoKm, NoKm, "OT-1")
Mon10h == Job(YMD(2024, 1, 1), HMS(7, 0, 0), HMS(17, 0, 0), NoKm, NoKm, "OT-1")
Tue9h  == Job(YMD(2024, 1, 2), HMS(7, 0, 0), HMS(16, 0, 0), NoKm, NoKm, "OT-1")

\* ================================================================ claims

\* C1: for the rows of one ISO week the weekly aggregator of Week.jsx yields
\* one bucket with regular = sum over days of min(8h, day total),
\* tier1 = min(1h, W), tier2 = max(0, W - 1h), W = sum over days of
\* max(0, day total - 8h), the day total being the sum of the day's record
\* durations; one 07:00-16:00 row gives 8h / 1h / 0h and total 9h; a 10h day
\* and a 9h day give tier1 = 1h and tier2 = 2h.
C1_WeekBuckets ==
  /\ (pc = "week" /\ OneIsoWeek(jobs)) =>
       /\ Len(weekly) = 1
       /\ weekly[1].hours1x = RegularOfJobs(jobs, TRUE)
       /\ weekly[1].hours15x = CapAt(OvertimeOfJobs(jobs, TRUE), 100)
       /\ weekly[1].hours2x = Over(OvertimeOfJobs(jobs, TRUE), 100)
  /\ (pc = "week" /\ jobs = <<Mon9h>>) =>
       /\ weekly[1].hours1x = 800 /\ weekly[1].hours15x = 100
       /\ weekly[1].hours2x = 0 /\ weekly[1].totalHours = 900
  /\ (pc = "week" /\ jobs = <<Tue9h, Mon10h>>) =>
       /\ weekly[1].hours15x = 100 /\ weekly[1].hours2x = 200

C1_Witness == pc = "week" /\ jobs = <<Tue9h, Mon10h>> /\ weekly[1].hours2x = 200

\* The buckets of the Week.jsx Map that hold the day of row j.
DateKeyOf(j) == [valid |-> TRUE, y |-> j.job_date.y, m |-> j.job_date.m, d |-> j.job_date.d]
BucketsOf(m, j) ==
  {b \in 1..Len(m) : \E e \in 1..Len(m[b].dayHours) : m[b].dayHours[e].key = DateKeyOf(j)}

\* C2: every dated row is accumulated into exactly one week bucket, two rows
\* share a bucket iff their dates lie in the same Monday-to-Sunday week, and
\* the bucket starts on that week's Monday and ends on its Sunday, so each
\* contributing row's date lies within [weekStart, weekEnd].
C2_OneBucketPerIsoWeek ==
  pc = "week" =>
    \A i \in 1..Len(jobs) :
      HasDate(jobs[i]) =>
        /\ Cardinality(BucketsOf(map, jobs[i])) = 1
        /\ \A b \in BucketsOf(map, jobs[i]) :
             /\ map[b].start = DjOk(MondayOf(DayNo(jobs[i])) * 86400)
             /\ map[b].end = DjOk((MondayOf(DayNo(jobs[i])) + 7) * 86400 - 1)
             /\ map[b].start.t <= DayNo(jobs[i]) * 86400
             /\ DayNo(jobs[i]) * 86400 <= map[b].end.t
        /\ \A k \in 1..Len(jobs) :
             HasDate(jobs[k]) =>
               ((BucketsOf(map, jobs[i]) = BucketsOf(map, jobs[k]))
                  <=> SameIsoWeek(jobs[i], jobs[k]))

\* C3: in every bucket either page outputs,
\* totalHours = regularHours + overtime15Hours + overtime20Hours.
C3_TotalIsSumOfBuckets ==
  /\ pc = "week" =>
       \A i \in 1..Len(weekly) :
         weekly[i].totalHours
           = weekly[i].hours1x + weekly[i].hours15x + weekly[i].hours2x
  /\ pc = "weekP" =>
       \A i \in 1..Len(weeklyP) :
         weeklyP[i].totalHours
           = weeklyP[i].regularHours + weeklyP[i].ot15 + weeklyP[i].ot20

C3_Witness ==
  \/ pc = "week" /\ \E i \in 1..Len(weekly) : weekly[i].hours2x > 0 /\ weekly[i].hours1x > 800
  \/ pc = "weekP" /\ \E i \in 1..Len(weeklyP) : weeklyP[i].ot20 > 0 /\ weeklyP[i].regularHours > 800

\* Sums of min(8h, h) and of max(0, h - 8h) over the day totals of a Map of
\* days (entries with an hours field).
RECURSIVE SumCapped(_), SumOver(_), SumHours(_)
SumCapped(days) ==
  IF days = <<>> THEN 0 ELSE CapAt(Head(days).hours, 800) + SumCapped(Tail(days))
SumOver(days) ==
  IF days = <<>> THEN 0 ELSE Over(Head(days).hours, 800) + SumOver(Tail(days))
SumHours(days) ==
  IF days = <<>> THEN 0 ELSE Head(days).hours + SumHours(Tail(days))

\* The output entry of Week.jsx for bucket b of the Map (starts are unique).
OutOf(b) == CHOOSE i \in 1..Len(weekly) : weekly[i].start = map[b].start

\* The days of dailyByKey that fall in the week of entry w of weeklyP.
DaysOfWeekP(w) ==
  SelectSeq(dailyByKey, LAMBDA day : w.start.t <= day.date.t /\ day.date.t <= w.end.t)

\* C4: daily stage.  For every day total h >= 0 a bucket is built from,
\* regular = min(8h, h) and overtime = max(0, h - 8h): per bucket the regular
\* hours are the sum of min(8h, h), the overtime the sum of max(0, h - 8h),
\* regular + overtime = total of the days, and regular is at most 8h a day.
C4_DailyStage ==
  /\ pc = "week" =>
       \A b \in 1..Len(map) :
         LET w == weekly[OutOf(b)]
             days == map[b].dayHours
         IN  /\ \A e \in 1..Len(days) : days[e].hours >= 0
             /\ w.hours1x = SumCapped(days)
             /\ w.hours15x + w.hours2x = SumOver(days)
             /\ w.hours1x + w.hours15x + w.hours2x = SumHours(days)
             /\ w.hours1x <= 800 * Len(days)
  /\ pc = "weekP" =>
       \A i \in 1..Len(weeklyP) :
         LET w == weeklyP[i]
             days == DaysOfWeekP(w)
         IN  /\ \A e \in 1..Len(days) : days[e].hours >= 0
             /\ w.regularHours = SumCapped(days)
             /\ w.overtimeHours = SumOver(days)
             /\ w.regularHours + w.overtimeHours = SumHours(days)
             /\ w.regularHours <= 800 * Len(days)

\* A bucket of a single day over 8h, and one of a single day under 8h.
C4_Witness ==
  /\ pc = "weekP"
  /\ Len(weeklyP) = 2
  /\ \E i \in 1..2 : weeklyP[i].regularHours = 800 /\ weeklyP[i].overtimeHours = 200
  /\ \E i \in 1..2 : weeklyP[i].regularHours = 517 /\ weeklyP[i].overtimeHours = 0

\* C5: weekly stage.  For the overtime W >= 0 accumulated in a week,
\* tier1 = min(1h, W) and tier2 = max(0, W - 1h): tier1 + tier2 = W, tier1
\* never exceeds 1h, and tier2 is positive only when tier1 is 1h.
C5_WeeklyStage ==
  /\ pc = "week" =>
       \A b \in 1..Len(map) :
         LET w == weekly[OutOf(b)]
             W == SumOver(map[b].dayHours)
         IN  /\ W >= 0
             /\ w.hours15x = CapAt(W, 100)
             /\ w.hours2x = Over(W, 100)
             /\ w.hours15x + w.hours2x = W
             /\ w.hours15x <= 100
             /\ w.hours2x > 0 => w.hours15x = 100
  /\ pc = "weekP" =>
       \A i \in 1..Len(weeklyP) :
         LET w == weeklyP[i]
             W == w.overtimeHours
         IN  /\ W >= 0
             /\ w.ot15 = CapAt(W, 100)
             /\ w.ot20 = Over(W, 100)
             /\ w.ot15 + w.ot20 = W
             /\ w.ot15 <= 100
             /\ w.ot20 > 0 => w.ot15 = 100

\* Accumulated overtime below the first tier, and above it.
C5_Witness ==
  /\ pc = "weekP"
  /\ Len(weeklyP) = 2
  /\ \E i \in 1..2 : weeklyP[i].overtimeHours = 50 /\ weeklyP[i].ot15 = 50 /\ weeklyP[i].ot20 = 0
  /\ \E i \in 1..2 : weeklyP[i].overtimeHours = 200 /\ weeklyP[i].ot15 = 100 /\ weeklyP[i].ot20 = 100

\* C6: overtime is determined per day, never averaged over the week.  A
\* bucket whose days are each at most 8h has tier1 = tier2 = 0 whatever its
\* total, and the overtime of a bucket is at least the overtime of each of
\* its days, however short the other days are.
C6_PerDayOvertime ==
  /\ pc = "week" =>
       \A b \in 1..Len(map) :
         LET w == weekly[OutOf(b)]
             days == map[b].dayHours
         IN  /\ (\A e \in 1..Len(days) : days[e].hours <= 800)
                  => w.hours15x = 0 /\ w.hours2x = 0
             /\ \A e \in 1..Len(days) :
                  w.hours15x + w.hours2x >= Over(days[e].hours, 800)
  /\ pc = "weekP" =>
       \A i \in 1..Len(weeklyP) :
         LET w == weeklyP[i]
             days == DaysOfWeekP(w)
         IN  /\ (\A e \in 1..Len(days) : days[e].hours <= 800)
                  => w.ot15 = 0 /\ w.ot20 = 0
             /\ \A e \in 1..Len(days) :
                  w.ot15 + w.ot20 >= Over(days[e].hours, 800)

\* A week of a 10h day and a 5h15 day (15h15 in two days, under 8h a day on
\* average) keeps its 2h of overtime; a week of two 5h15 days (10h30) has none.
C6_Witness ==
  /\ pc = "week"
  /\ Len(map) = 1
  /\ Len(map[1].dayHours) = 2
  /\ \/ /\ \E e \in 1..2 : map[1].dayHours[e].hours = 1000
        /\ \E e \in 1..2 : map[1].dayHours[e].hours = 525
        /\ weekly[1].hours15x + weekly[1].hours2x = 200
     \/ /\ \A e \in 1..2 : map[1].dayHours[e].hours = 525
        /\ weekly[1].totalHours = 1050
        /\ weekly[1].hours15x + weekly[1].hours2x = 0

\* C7: the buckets returned are strictly descending by weekStart (newest
\* week first), so no two of them have the same weekStart.
C7_StrictlyDescending ==
  /\ pc = "week" =>
       \A i, k \in 1..Len(weekly) : i < k => isAfter(weekly[i].start, weekly[k].start)
  /\ pc = "weekP" =>
       \A i, k \in 1..Len(weeklyP) : i < k => isAfter(weeklyP[i].start, weeklyP[k].start)

\* Rows i of js whose date is the one a day key names.
RowsOfDay(js, key) == {i \in 1..Len(js) : HasDate(js[i]) /\ DateKeyOf(js[i]) = key}

AllTimed(js) ==
  \A i \in 1..Len(js) : HasDate(js[i]) /\ TimesPresent(js[i]) /\ RawMinutes(js[i]) >= 0

\* C8: a row with valid depart and end on its date, end >= depart, contributes
\* (end - depart) in minutes / 60, rounded to 0.01h by hoursBetween and then,
\* in Week.jsx, to the nearest 0.25h: the day totals are the sums of these.
C8_Duration ==
  /\ (pc = "week" /\ AllTimed(jobs)) =>
       \A b \in 1..Len(map) : \A e \in 1..Len(map[b].dayHours) :
         LET day == map[b].dayHours[e]
         IN  day.hours =
               SumFn([k \in 1..Len(jobs) |->
                        IF k \in RowsOfDay(jobs, day.key)
                        THEN ToQuarter(ToCenti(RawMinutes(jobs[k]))) ELSE 0], Len(jobs))
  /\ (pc = "weekP" /\ AllTimed(jobs)) =>
       \A e \in 1..Len(dailyByKey) :
         LET day == dailyByKey[e]
         IN  day.hours =
               SumFn([k \in 1..Len(jobs) |->
                        IF k \in RowsOfDay(jobs, day.key)
                        THEN ToCenti(RawMinutesHM(jobs[k])) ELSE 0], Len(jobs))

\* 07:00-12:10 is 310 minutes: 5.17h, 5.25h once rounded to the quarter.
C8_Witness ==
  /\ Len(jobs) = 1 /\ HasDate(jobs[1])
  /\ jobs[1].depart = HMS(7, 0, 0) /\ jobs[1].fin = HMS(12, 10, 0)
  /\ \/ pc = "week" /\ map[1].dayHours[1].hours = 525
     \/ pc = "weekP" /\ dailyByKey[1].hours = 517

Untimed(j) == j.depart.kind # "hms" \/ j.fin.kind # "hms"

\* C9: a row whose depart or end is missing or unparseable contributes exactly
\* 0 hours: the total of each day that has such a row is the total of the
\* day's other rows.
C9_UntimedContributesZero ==
  /\ pc = "week" =>
       \A b \in 1..Len(map) : \A e \in 1..Len(map[b].dayHours) :
         LET day == map[b].dayHours[e]
         IN  \A i \in RowsOfDay(jobs, day.key) :
               Untimed(jobs[i]) =>
                 day.hours =
                   SumFn([k \in 1..Len(jobs) |->
                            IF k \in RowsOfDay(jobs, day.key) /\ k # i
                            THEN Contribution(jobs[k], TRUE) ELSE 0], Len(jobs))
  /\ pc = "weekP" =>
       \A e \in 1..Len(dailyByKey) :
         LET day == dailyByKey[e]
         IN  \A i \in RowsOfDay(jobs, day.key) :
               Untimed(jobs[i]) =>
                 day.hours =
                   SumFn([k \in 1..Len(jobs) |->
                            IF k \in RowsOfDay(jobs, day.key) /\ k # i
                            THEN Contribution(jobs[k], FALSE) ELSE 0], Len(jobs))

\* A day with a 10h row and a row whose end is missing or unparseable.
C9_Witness ==
  /\ pc \in {"week", "weekP"}
  /\ Len(jobs) = 2
  /\ jobs[1].job_date = jobs[2].job_date
  /\ \E i \in 1..2 : jobs[i].depart = HMS(7, 0, 0) /\ jobs[i].fin \in {NoTime, BadTime}
  /\ \E i \in 1..2 : jobs[i].depart = HMS(7, 0, 0) /\ jobs[i].fin = HMS(17, 0, 0)
  /\ pc = "week" => map[1].dayHours[1].hours = 1000
  /\ pc = "weekP" => dailyByKey[1].hours = 1000

Inverted(j) == TimesPresent(j) /\ RawMinutes(j) <= 0

\* C10: a row whose end is before or equal to its depart contributes 0 hours,
\* not a negative value: every day total and every hour figure of every
\* bucket is >= 0, and a day of inverted rows only totals 0.
C10_NonNegative ==
  /\ pc = "week" =>
       /\ \A b \in 1..Len(map) : \A e \in 1..Len(map[b].dayHours) :
            LET day == map[b].dayHours[e]
            IN  /\ day.hours >= 0
                /\ (\A i \in RowsOfDay(jobs, day.key) : Inverted(jobs[i])) => day.hours = 0
       /\ \A i \in 1..Len(weekly) :
            /\ weekly[i].hours1x >= 0 /\ weekly[i].hours15x >= 0
            /\ weekly[i].hours2x >= 0 /\ weekly[i].totalHours >= 0
  /\ pc = "weekP" =>
       /\ \A e \in 1..Len(dailyByKey) :
            LET day == dailyByKey[e]
            IN  /\ day.hours >= 0
                /\ (\A i \in RowsOfDay(jobs, day.key) : Inverted(jobs[i])) => day.hours = 0
       /\ \A i \in 1..Len(weeklyP) :
            /\ weeklyP[i].regularHours >= 0 /\ weeklyP[i].ot15 >= 0
            /\ weeklyP[i].ot20 >= 0 /\ weeklyP[i].totalHours >= 0

\* A day whose only row runs from 17:00 back to 07:00.
C10_Witness ==
  /\ pc \in {"week", "weekP"}
  /\ Len(jobs) = 1
  /\ jobs[1].depart = HMS(17, 0, 0) /\ jobs[1].fin = HMS(7, 0, 0)
  /\ pc = "week" => map[1].dayHours[1].hours = 0 /\ weekly[1].totalHours = 0
  /\ pc = "weekP" => dailyByKey[1].hours = 0 /\ weeklyP[1].totalHours = 0

\* ------------------------------------------------------------ distances
\* Both legs of a row's distance, each 0 when absent.
KmBoth(j) ==
  (IF j.km_aller.isNull THEN 0 ELSE j.km_aller.v)
    + (IF j.km_retour.isNull THEN 0 ELSE j.km_retour.v)

\* The day entry a row is accumulated under.
RowKey(j) == IF HasDate(j) THEN DateKeyOf(j) ELSE InvalidDateStr

\* The rows of js accumulated into bucket w of a Map of weeks.
RowsOfBucket(w, js) ==
  {k \in 1..Len(js) : \E e \in 1..Len(w.dayHours) : w.dayHours[e].key = RowKey(js[k])}

\* The dated rows of js whose date lies in [w.start, w.end].
RowsInWeek(w, js) ==
  {k \in 1..Len(js) :
     /\ HasDate(js[k])
     /\ w.start.t <= DayNo(js[k]) * 86400
     /\ DayNo(js[k]) * 86400 <= w.end.t}

KmOfRows(S, js) ==
  SumFn([k \in 1..Len(js) |-> IF k \in S THEN KmBoth(js[k]) ELSE 0], Len(js))

\* The output entry of part_001 for bucket b of its Map.
OutOfKm(b) == CHOOSE i \in 1..Len(weeklyKm) : weeklyKm[i].start = mapKm[b].start

\* C11: a week's totalDistance is the sum over all the records accumulated
\* into it of km_aller + km_retour, each counted as 0 when absent, whether or
\* not the record's times are valid (a record contributing 0 hours included).
C11_TotalDistance ==
  /\ pc = "week" =>
       \A b \in 1..Len(map) :
         weekly[OutOf(b)].totalKm = KmOfRows(RowsOfBucket(map[b], jobs), jobs)
  /\ pc = "weekKm" =>
       \A b \in 1..Len(mapKm) :
         weeklyKm[OutOfKm(b)].totalKm = KmOfRows(RowsOfBucket(mapKm[b], jobs), jobs)
  /\ pc = "weekP" =>
       \A i \in 1..Len(weeklyP) :
         weeklyP[i].totalKm = KmOfRows(RowsInWeek(weeklyP[i], jobs), jobs)

\* --------------------------------------------------- unparseable dates
\* The rows of js that have a date.
Dated(js) == SelectSeq(js, HasDate)

\* C12: a record whose date cannot be parsed is excluded from all
\* aggregation: the days, their hours, distances and record counts, and the
\* buckets are those of the records that have a date, every bucket has a
\* weekStart, and the aggregation still yields a result.
C12_UnparseableDateExcluded ==
  /\ pc = "week" =>
       /\ map = WeekMap(Dated(jobs))
       /\ weekly \in WeeklyOutcomes(Dated(jobs))
       /\ \A i \in 1..Len(weekly) : isValid(weekly[i].start)
  /\ pc = "weekKm" =>
       /\ mapKm = WeekKmMap(Dated(jobs))
       /\ weeklyKm \in WeeklyKmOutcomes(Dated(jobs))
       /\ \A i \in 1..Len(weeklyKm) : isValid(weeklyKm[i].start)
  /\ pc = "weekP" =>
       /\ dailyByKey = DailyMap(Dated(jobs))
       /\ weeklyP \in WeeklyParsedOutcomes(Dated(jobs))
       /\ \A i \in 1..Len(weeklyP) : isValid(weeklyP[i].start)

\* ---------------------------------------------------------- frame effect
\* js without its i-th row.
Remove(js, i) == SubSeq(js, 1, i - 1) \o SubSeq(js, i + 1, Len(js))

\* The week and the hour figures of an output entry of Week.jsx / part_001,
\* and of part_002.
HoursOf(w) == <<w.start, w.hours1x, w.hours15x, w.hours2x, w.totalHours>>
HoursOfP(w) == <<w.start, w.regularHours, w.ot15, w.ot20, w.totalHours>>
ZeroHours(h) == h[2] = 0 /\ h[3] = 0 /\ h[4] = 0 /\ h[5] = 0

\* with holds the weeks of without, hour for hour, and at most all-zero
\* weeks besides.
SameWeekHours(with, without) ==
  /\ without \subseteq with
  /\ \A h \in with \ without : ZeroHours(h)

Range(f) == {f[i] : i \in DOMAIN f}

\* C13: adding one record whose depart or end is missing or malformed to a
\* record set leaves regular, tier1, tier2 and total of every week as they
\* are without it (the record's own week, if new, appears with zero hours).
C13_UntimedRowFrame ==
  /\ pc = "week" =>
       \A i \in 1..Len(jobs) :
         Untimed(jobs[i]) =>
           SameWeekHours({HoursOf(w) : w \in Range(weekly)},
                         {HoursOf(w) : w \in Range(WeekOut(WeekMap(Remove(jobs, i))))})
  /\ pc = "weekKm" =>
       \A i \in 1..Len(jobs) :
         Untimed(jobs[i]) =>
           SameWeekHours({HoursOf(w) : w \in Range(weeklyKm)},
                         {HoursOf(w) : w \in Range(WeekKmOut(WeekKmMap(Remove(jobs, i))))})
  /\ pc = "weekP" =>
       \A i \in 1..Len(jobs) :
         Untimed(jobs[i]) =>
           SameWeekHours({HoursOfP(w) : w \in Range(weeklyP)},
                         {HoursOfP(w) : w \in Range(WeeklyArr(DailyMap(Remove(jobs, i))))})

\* ------------------------------------------------------ order of the rows
Permute(js, p) == [i \in 1..Len(js) |-> js[p[i]]]

\* C14: weeks, their order and their values depend only on the set of
\* records: every permutation of the records yields the one sequence of
\* buckets the page shows (same weekStart, weekEnd, hours and distance).
C14_OrderIndependent ==
  /\ pc = "week" =>
       \A p \in Perms(Len(jobs)) : WeeklyOutcomes(Permute(jobs, p)) = {weekly}
  /\ pc = "weekKm" =>
       \A p \in Perms(Len(jobs)) : WeeklyKmOutcomes(Permute(jobs, p)) = {weeklyKm}
  /\ pc = "weekP" =>
       \A p \in Perms(Len(jobs)) : WeeklyParsedOutcomes(Permute(jobs, p)) = {weeklyP}

AllDayEntries(m) ==
  UNION {{<<b, e>> : e \in 1..Len(m[b].dayHours)} : b \in 1..Len(m)}

OneDate(js) ==
  /\ js # <<>>
  /\ \A i \in 1..Len(js) : HasDate(js[i]) /\ js[i].job_date = js[1].job_date

FiveHours(j) ==
  j.job_date = YMD(2024, 1, 1) /\ j.depart = HMS(7, 0, 0) /\ j.fin = HMS(12, 0, 0)

\* C16 on a page that keeps a Map m of weeks and returns out (Week.jsx,
\* part_001).
C16_Week(m, out, js) ==
  /\ \A i \in 1..Len(js) :
       HasDate(js[i]) =>
         LET es == {x \in AllDayEntries(m) :
                      m[x[1]].dayHours[x[2]].key = DateKeyOf(js[i])}
         IN  /\ Cardinality(es) = 1
             /\ \A x \in es : m[x[1]].dayHours[x[2]].hours = DayTotalOf(js, i, TRUE)
  /\ OneDate(js) =>
       /\ Len(out) = 1
       /\ out[1].hours1x = CapAt(DayTotalOf(js, 1, TRUE), 800)
       /\ out[1].hours15x + out[1].hours2x = Over(DayTotalOf(js, 1, TRUE), 800)
  /\ (Len(js) = 2 /\ FiveHours(js[1]) /\ FiveHours(js[2])) =>
       out[1].hours1x = 800 /\ out[1].hours15x + out[1].hours2x = 200

\* C16: all records with the same calendar date, whatever their times, are
\* accumulated into a single daily total, and the 8h split is applied to that
\* total, not to each record: two 5h records on one date give 8h regular and
\* 2h overtime.
C16_SameDateOneDay ==
  /\ pc = "week" => C16_Week(map, weekly, jobs)
  /\ pc = "weekKm" => C16_Week(mapKm, weeklyKm, jobs)
  /\ pc = "weekP" =>
       /\ \A i \in 1..Len(jobs) :
            HasDate(jobs[i]) =>
              LET es == {e \in 1..Len(dailyByKey) : dailyByKey[e].key = DateKeyOf(jobs[i])}
              IN  /\ Cardinality(es) = 1
                  /\ \A e \in es :
                       /\ dailyByKey[e].hours = DayTotalOf(jobs, i, FALSE)
                       /\ dailyByKey[e].jobCount
                            = Cardinality(RowsOfDay(jobs, DateKeyOf(jobs[i])))
       /\ OneDate(jobs) =>
            /\ Len(weeklyP) = 1
            /\ weeklyP[1].regularHours = CapAt(DayTotalOf(jobs, 1, FALSE), 800)
            /\ weeklyP[1].overtimeHours = Over(DayTotalOf(jobs, 1, FALSE), 800)
       /\ (Len(jobs) = 2 /\ FiveHours(jobs[1]) /\ FiveHours(jobs[2])) =>
            weeklyP[1].regularHours = 800 /\ weeklyP[1].overtimeHours = 200

\* Two 5h records of one date that differ by their ot.
C16_Witness ==
  /\ pc \in {"week", "weekP"}
  /\ Len(jobs) = 2 /\ FiveHours(jobs[1]) /\ FiveHours(jobs[2]) /\ jobs[1].ot # jobs[2].ot
  /\ pc = "week" =>
       /\ Len(map[1].dayHours) = 1 /\ map[1].dayHours[1].hours = 1000
       /\ weekly[1].hours1x = 800 /\ weekly[1].hours15x = 100 /\ weekly[1].hours2x = 100
  /\ pc = "weekP" =>
       /\ Len(dailyByKey) = 1 /\ dailyByKey[1].hours = 1000 /\ dailyByKey[1].jobCount = 2
       /\ weeklyP[1].regularHours = 800 /\ weeklyP[1].overtimeHours = 200

\* ------------------------------------------------- rounding before the split
\* C17 on a page that keeps a Map m of weeks and returns out.
C17_Week(m, out, js) ==
  /\ \A x \in AllDayEntries(m) :
       LET day == m[x[1]].dayHours[x[2]]
       IN  /\ day.hours % 25 = 0
           /\ ToQuarter(day.hours) = day.hours
           /\ roundToQuarterHour(day.hours) = day.hours
           /\ day.hours =
                SumFn([k \in 1..Len(js) |->
                         IF RowKey(js[k]) = day.key THEN Contribution(js[k], TRUE) ELSE 0],
                      Len(js))
  /\ \A k \in 1..Len(out) :
       /\ out[k].hours1x % 25 = 0
       /\ out[k].hours15x % 25 = 0
       /\ out[k].hours2x % 25 = 0
       /\ out[k].totalHours % 25 = 0

\* C17: the rounding to 0.25h is applied to each record's duration, before the
\* daily 8h split and the weekly tiering: every day total entering the split
\* is a sum of rounded durations, hence a multiple of 0.25h that rounding
\* again leaves unchanged, and regular, tier1, tier2 and total of every
\* bucket are multiples of 0.25h.
C17_QuarterBeforeSplit ==
  /\ pc = "week" => C17_Week(map, weekly, jobs)
  /\ pc = "weekKm" => C17_Week(mapKm, weeklyKm, jobs)

\* A day of a 5h10 record (5.17h, rounded 5.25h) and a 8h23 record (8.38h,
\* rounded 8.5h): 13.75h where rounding the sum 13.55h would give 13.5h.
C17_Witness ==
  /\ pc = "week"
  /\ Len(jobs) = 2
  /\ \E i \in 1..2 : jobs[i].depart = HMS(7, 0, 0) /\ jobs[i].fin = HMS(12, 10, 0)
  /\ \E i \in 1..2 : jobs[i].depart = HMS(7, 0, 0) /\ jobs[i].fin = HMS(15, 23, 45)
  /\ Len(map) = 1 /\ Len(map[1].dayHours) = 1
  /\ map[1].dayHours[1].hours = 1375
  /\ weekly[1].hours1x = 800 /\ weekly[1].hours15x = 100 /\ weekly[1].hours2x = 475

\* -------------------------------------------------------------- zero weeks
\* Every record of js dated in the week of row i contributes 0 hours.
ZeroWeekOf(js, i, quarter) ==
  \A k \in 1..Len(js) :
    (HasDate(js[k]) /\ SameIsoWeek(js[i], js[k])) => Contribution(js[k], quarter) = 0

MondayStart(j) == DjOk(MondayOf(DayNo(j)) * 86400)

\* C18: a week whose records all contribute 0 hours still has its bucket in
\* the output, with regular = tier1 = tier2 = total = 0.
C18_ZeroWeek ==
  /\ pc = "week" =>
       \A i \in 1..Len(jobs) :
         (HasDate(jobs[i]) /\ ZeroWeekOf(jobs, i, TRUE)) =>
           \E k \in 1..Len(weekly) :
             /\ weekly[k].start = MondayStart(jobs[i])
             /\ ZeroHours(HoursOf(weekly[k]))
  /\ pc = "weekKm" =>
       \A i \in 1..Len(jobs) :
         (HasDate(jobs[i]) /\ ZeroWeekOf(jobs, i, TRUE)) =>
           \E k \in 1..Len(weeklyKm) :
             /\ weeklyKm[k].start = MondayStart(jobs[i])
             /\ ZeroHours(HoursOf(weeklyKm[k]))
  /\ pc = "weekP" =>
       \A i \in 1..Len(jobs) :
         (HasDate(jobs[i]) /\ ZeroWeekOf(jobs, i, FALSE)) =>
           \E k \in 1..Len(weeklyP) :
             /\ weeklyP[k].start = MondayStart(jobs[i])
             /\ ZeroHours(HoursOfP(weeklyP[k]))

\* ---------------------------------------------------------------- sparsity
\* The Mondays of the weeks the dated rows of js fall in.
WeeksOf(js) == {MondayOf(DayNo(js[i])) : i \in {k \in 1..Len(js) : HasDate(js[k])}}

\* C19 for an output array out of the rows js.
C19_Out(out, js) ==
  /\ Len(out) = Cardinality(WeeksOf(js))
  /\ \A k \in 1..Len(out) : isValid(out[k].start) /\ RowsInWeek(out[k], js) # {}
  /\ js = <<>> => out = <<>>

\* C19: the output is sparse: every bucket has at least one record dated
\* within [weekStart, weekEnd], there are as many buckets as distinct ISO
\* weeks among the parseable record dates, and no record gives no bucket.
C19_Sparse ==
  /\ pc = "week" => C19_Out(weekly, jobs)
  /\ pc = "weekKm" => C19_Out(weeklyKm, jobs)
  /\ pc = "weekP" => C19_Out(weeklyP, jobs)

\* ------------------------------------------------------ seconds of a time
\* Row j with its times cut to hours and minutes.
CutToMinutes(j) == [j EXCEPT !.depart = HhMm(@), !.fin = HhMm(@)]
CutAllToMinutes(js) == [i \in 1..Len(js) |-> CutToMinutes(js[i])]

\* C20: only HH:mm of a time of day is significant: a time parses to the
\* instant of its HH:mm, so the days and buckets are those of the records with
\* the seconds of depart and end cut off.
C20_SecondsInsignificant ==
  /\ pc \in {"week", "weekKm"} =>
       \A i \in 1..Len(jobs) :
         /\ makeDayjsFromJob(jobs[i].job_date, jobs[i].depart)
              = makeDayjsFromJob(jobs[i].job_date, HhMm(jobs[i].depart))
         /\ makeDayjsFromJob(jobs[i].job_date, jobs[i].fin)
              = makeDayjsFromJob(jobs[i].job_date, HhMm(jobs[i].fin))
  /\ pc = "week" => map = WeekMap(CutAllToMinutes(jobs))
  /\ pc = "weekKm" => mapKm = WeekKmMap(CutAllToMinutes(jobs))
  /\ pc = "weekP" =>
       /\ \A i \in 1..Len(jobs) :
            /\ makeDayTime(jobs[i].job_date, jobs[i].depart)
                 = makeDayTime(jobs[i].job_date, HhMm(jobs[i].depart))
            /\ makeDayTime(jobs[i].job_date, jobs[i].fin)
                 = makeDayTime(jobs[i].job_date, HhMm(jobs[i].fin))
       /\ dailyByKey = DailyMap(CutAllToMinutes(jobs))

\* ---------------------------------------------------- the order of formats
\* The formats in the order the claim gives them, and the places of those
\* that read a text strictly.
C21_Order ==
  <<"YYYY-MM-DD", "YYYY-MM-DDTHH:mm:ssZ", "YYYY-MM-DDTHH:mm:ss.SSSZ", "DD MMM YYYY">>
StrictHits(t) == {i \in 1..Len(C21_Order) : isValid(dayjsStrict(t, C21_Order[i]))}
LeastOf(S) == CHOOSE i \in S : \A k \in S : i <= k

C22_HourFormatter ==
  output.fn \in {"formatHoursHM", "formatHoursHMParsed"} =>
    LET x == input.v
        l == output.v
    IN  IF x.tag # "fin" \/ x.v <= 0 THEN l = Label(JsNum(0), JsNum(0))
        ELSE /\ l.h.tag = "fin" /\ l.h.v >= 0
             /\ l.m.tag = "fin" /\ l.m.v \in 0..59
             /\ (x.v = 275 => l = Label(JsNum(2), JsNum(45)))

\* C23: labels carry no rounding drift: the label of a day whose records last
\* m1..mk whole minutes shows floor(S / 60) hours and S mod 60 minutes for
\* S = m1 + ... + mk, and 60 * H + MM of any label is the one rounding of
\* 60 * hours.
C23_NoDrift ==
  /\ output.fn = "grouped" =>
       \A i \in 1..Len(output.v) :
         LET list == output.v[i].list
             S    == SumFn([k \in 1..Len(list) |-> RawMinutes(list[k])], Len(list))
         IN  output.v[i].totalHHmm = Label(JsNum(S \div 60), JsNum(S % 60))
  /\ (/\ output.fn \in {"formatHoursHM", "formatHoursHMParsed", "toHHmmLabelFromFormatHours"}
      /\ input.v.tag = "fin" /\ input.v.v > 0) =>
       /\ output.v.h.tag = "fin" /\ output.v.m.tag = "fin"
       /\ 60 * output.v.h.v + output.v.m.v = RoundDiv(60 * input.v.v, 100)

\* ------------------------------------------------------------------ C24
\* C24: export is idempotent per job: over every interleaving of approve
\* actions and invocations of the function, the spreadsheet endpoint appends
\* the row of a job at most once.
C24_AtMostOnce == \A j \in JobIds : sheet[j] <= 1

\* ------------------------------------------------------------------ C25
\* C25: a job becomes approved only in a step of the dashboard that holds an
\* ok or skipped answer of the function for that job, a failed invocation
\* leaves every status as it is, and so every approved job has
\* exported_to_sheet = TRUE.
okOrSkipped(c) == c.pc = "done" /\ c.resp.code = 200 /\ (c.resp.ok \/ c.resp.skipped)
C25_ApprovedOnlyAfterExport ==
  /\ [](\A j \in JobIds : db[j].status = "approved" => db[j].exported_to_sheet)
  /\ [][\A j \in JobIds :
          /\ (db[j].status # "approved" /\ db'[j].status = "approved")
               => okOrSkipped(calls["mgr"]) /\ calls["mgr"].job_id = j
          /\ (calls["mgr"].pc = "done" /\ ~okOrSkipped(calls["mgr"]))
               => db'[j].status = db[j].status]_vars
\* Both jobs approved and reloaded, each appended to the sheet once.
C25_Witness ==
  /\ \A j \in JobIds : db[j].status = "approved" /\ db[j].exported_to_sheet /\ sheet[j] = 1
  /\ mgr.pc = "idle" /\ mgr.jobs = loadJobs(db)

\* ------------------------------------------------------------------ C26
\* C26: the function goes on to the POST only for a caller whose token is a
\* manager's and a job stored as submitted; every other invocation ends with
\* an error response, and without a post or a change of the job.
C26_OnlyManagerSubmitted ==
  [][\A p \in {"mgr", "ext"} :
       calls[p].pc = "start" /\ calls'[p].pc # "start" =>
         IF calls[p].caller = "manager" /\ db[calls[p].job_id].status = "submitted"
         THEN calls'[p].pc = "post" \/ calls'[p].resp = Resp(200, TRUE, TRUE)
         ELSE /\ calls'[p].pc = "done" /\ calls'[p].resp.code \in {400, 401, 403, 404}
              /\ db' = db /\ sheet' = sheet]_vars

\* ------------------------------------------------------------------ C27
\* C27: when the POST fails, is aborted or is answered with a status that is
\* not OK, the function answers 502 with ok false and writes nothing, so the
\* job is still one that the function exports (not skips) when invoked again.
C27_FailureLeavesJob ==
  [][\A p \in {"mgr", "ext"} :
       calls[p].pc = "post" /\ calls'[p].pc = "done" =>
         /\ calls'[p].resp = Resp(502, FALSE, FALSE)
         /\ db' = db
         /\ checkJob(db'[calls[p].job_id]) = checkJob(db[calls[p].job_id])]_vars
\* The dashboard's invocation failed, nothing was appended, and the job is
\* still submitted and not exported.
C27_Witness ==
  /\ calls["mgr"].pc = "done" /\ calls["mgr"].resp.code = 502
  /\ sheet[calls["mgr"].job_id] = 0
  /\ checkJob(db[calls["mgr"].job_id]) = NoResp

\* ------------------------------------------------------------------ C29
\* C29: with an employee and a week option selected, the jobs that Approve
\* week takes (and counts on its button) are exactly the stored submitted jobs
\* of that employee in one Monday-to-Sunday week.
mondayOf(j) == startOfIsoWeek(dayjsOfDate(db[j].job_date))
weekList == submittedForSelectedWeek(splitSubmitted(mgr.jobs, mgr.employeeId, db),
                                     mgr.selectedWeekKey, db)
C29_ExactlyTheWeek ==
  (mgr.pc = "idle" /\ mgr.employeeId # "all" /\ mgr.selectedWeekKey # LatestKey) =>
    \A i \in 1..Len(weekList) :
      /\ db[weekList[i]].status = "submitted"
      /\ db[weekList[i]].user_id = mgr.employeeId
      /\ \A k \in 1..Len(weekList) : mondayOf(weekList[i]) = mondayOf(weekList[k])
      /\ \A j \in JobIds :
           (db[j].status = "submitted" /\ db[j].user_id = mgr.employeeId
              /\ mondayOf(j) = mondayOf(weekList[i]))
             => \E k \in 1..Len(weekList) : weekList[k] = j

\* ------------------------------------------------------------------ C30
\* The rows of js that have a date, and the sum over the distinct dates of js
\* of the day's total hours.
DatedRows(js) == {k \in 1..Len(js) : HasDate(js[k])}
DayHoursSum(js, quarter) ==
  SumFn([k \in 1..Len(js) |->
           IF HasDate(js[k]) /\ FirstOfItsDate(js, k) THEN DayTotalOf(js, k, quarter) ELSE 0],
        Len(js))
SumTotalKm(out) == SumFn([i \in 1..Len(out) |-> out[i].totalKm], Len(out))
SumTotalHours(out) == SumFn([i \in 1..Len(out) |-> out[i].totalHours], Len(out))

\* C30: aggregation conserves its input.  Summed over all output weeks,
\* totalDistance is the sum of the distances (both legs) of the records that
\* have a parseable date, and totalHours is the sum over the distinct record
\* dates of the day's rounded total: no record is dropped or counted twice.
C30_Conservation ==
  /\ pc = "week" =>
       /\ SumTotalKm(weekly) = KmOfRows(DatedRows(jobs), jobs)
       /\ SumTotalHours(weekly) = DayHoursSum(jobs, TRUE)
  /\ pc = "weekKm" =>
       /\ SumTotalKm(weeklyKm) = KmOfRows(DatedRows(jobs), jobs)
       /\ SumTotalHours(weeklyKm) = DayHoursSum(jobs, TRUE)
  /\ pc = "weekP" =>
       /\ SumTotalKm(weeklyP) = KmOfRows(DatedRows(jobs), jobs)
       /\ SumTotalHours(weeklyP) = DayHoursSum(jobs, FALSE)

\* ------------------------------------------------------------------ C28
\* C28: a job's status only advances.  Once the stored job is submitted or
\* approved (locked), no action of the form or of the History page writes to
\* it: it is not edited, deleted or returned to saved, whether or not the
\* form could load it.
C28_LockedJobsKept ==
  [][\A j \in JobIds : db[j].status \in {"submitted", "approved"} => db'[j] = db[j]]_vars
====
